---- MODULE Spec2Model ----
(***************************************************************************)
(* A model of the ingestion-and-aggregation engine of polymarket_analysis: *)
(*   - RateLimiter and request_json        (src/build_daily_volumes.py)    *)
(*   - fetch_all_trades, the cache files and main                          *)
(*                                          (src/build_daily_volumes.py)   *)
(* Times are integers in milliseconds.  Rates are integers in              *)
(* milli-requests per second (rps * 1000), so that 0.1 rps is 100.         *)
(* Error texts are sequences of tokens; "text a contains text b" is        *)
(* "b is a contiguous part of a".                                          *)
(*                                                                         *)
(* Specifications:                                                         *)
(*   SpecLim    wait() calls on one RateLimiter, with time passing between *)
(*   SpecReq    one call of request_json, for every sequence of responses  *)
(*   SpecFetch  one fresh call of fetch_all_trades, for every upstream     *)
(*   Spec       main, run MaxRuns times over one cache directory           *)
(***************************************************************************)
EXTENDS Integers, Sequences, FiniteSets, TLC

(***************************************************************************)
(* Bounds of the model                                                     *)
(***************************************************************************)
\* the largest max_attempts a caller passes to request_json
MaxAttempts == 6
\* the number of wait() calls followed in the stand-alone limiter
MaxWaits == 4
\* the clock (time.time(), in ms) when the process starts
StartClock == 100000
\* the number of market ids in the needed-dates input of main
MaxMarkets == 2
\* the number of times main is run over one cache directory
MaxRuns == 2
\* the upstream trade histories followed by a single fetch hold up to
\* MaxPages * 500 + 499 records
MaxPages == 8
MaxTrades == 3
MaxSpanDays == 33
MaxFillDays == 3
MaxLogLines == 3
MaxScript == 5
MaxClassAttempts == 3

(***************************************************************************)
(* Program constants                                                       *)
(***************************************************************************)
\* rps is clamped below at 0.1                 (max(rps, 0.1))
RpsFloor == 100
\* backoff = 1.0
BackoffInit == 1000
\* backoff = min(backoff * 2, 16)
BackoffCap == 16000
\* limit = 500
Limit == 500
\* if offset > 3000
OffsetCeiling == 3000
\* seconds of one UTC day (time.gmtime / strftime("%Y-%m-%d"))
DaySeconds == 86400
MaxDays == 30

Max2(a, b) == IF a >= b THEN a ELSE b
Min2(a, b) == IF a <= b THEN a ELSE b

\* the rates (rps * 1000) a limiter is built with: 0.05, 1 and 5 rps
RpsChoices == {50, 1000, 5000}
\* the time (ms) that passes in the caller between two operations, and the
\* time one HTTP round trip takes
ElapseChoices == {0, 150, 1000, 12000}
CallDurations == {0, 150}
\* time.sleep(x) returns after x ms or a little later
Oversleep == {0, 30}

VARIABLES
  now,          \* time.time(), ms
  min_interval, \* RateLimiter.min_interval, ms
  last,         \* RateLimiter.last, ms
  nwaits,       \* number of wait() calls that returned
  prev_release, \* value of last before the latest wait(); -1 before the second
  wait_slept,   \* ms the latest wait() slept
  rpc,          \* position in request_json
  max_attempts, \* argument of request_json
  use_limiter,  \* whether request_json got a limiter
  attempt,      \* loop variable of request_json (the attempt about to run)
  backoff,      \* local backoff, ms
  last_err,     \* local last_err: a text, <<>> for None
  calls,        \* HTTP calls made by this request_json call
  slept,        \* total ms of time.sleep(backoff) in this request_json call
  req_waits,    \* limiter.wait() calls made by this request_json call
  nsleeps,      \* number of time.sleep(backoff) calls in this request_json call
  all503,       \* every response so far had status 503
  last_resp,    \* the latest response (or transport exception)
  result,       \* what request_json returned or raised
  up,           \* the upstream: what each endpoint answers to each request
  run,          \* which run of main this is (1 = first)
  mpc,          \* position in main / fetch_all_trades
  idx,          \* index into market_ids of the market being processed
  gamma_file,   \* cache: gamma_<mid>.json, per market id
  agg_file,     \* cache: agg_<cid>.json, per condition id
  trades_log,   \* cache: trades_<cid>.jsonl, per condition id
  m_trades,     \* main's local trades (unbound until first assigned)
  m_vol,        \* main's local vol_by_date
  m_cnt,        \* main's local cnt_by_date
  m_truncated,  \* main's local truncated
  f_trades,     \* fetch_all_trades' local trades
  f_offset,     \* fetch_all_trades' local offset
  f_result,     \* what fetch_all_trades returned or raised
  out,          \* the rows written to the output CSV in this run
  prev_out,     \* the rows the previous run wrote
  counters,     \* ok, gamma_fail, trades_fail, truncated_count
  reqlog,       \* the HTTP requests issued in this run, in order
  agg_written,  \* condition ids whose agg file this run wrote
  outcome,      \* per market id, how this run's iteration for it ended
  disk,         \* whether writes to the cache directory can fail
  a_pc,         \* aggregate_trades looked at alone: position
  a_in,         \* its argument, a list of raw trade records
  a_out,        \* what it returned or that it raised
  p_pc,         \* fetch_prices_history_daily: position
  p_start,      \* its argument start_ts
  p_end,        \* its argument end_ts
  p_limit,      \* the longest window (days) the price endpoint accepts
  p_cur,        \* its local cur
  p_window_days,\* its local window_days
  p_out,        \* its local out: date -> price
  p_reqs,       \* the requests it issued: [from, to, ok]
  p_script,     \* the endpoint's answers to its first requests, in order
  w_pc,         \* two threads in wait() of one RateLimiter: their positions
  w_wake,       \* the clock value at which each thread's sleep is over
  w_release,    \* the clock value at which each thread's wait() returned
  c_pc,         \* classify_market: position
  c_max,        \* its max_attempts
  c_attempt,    \* its loop variable attempt
  c_requests,   \* requests it issued
  c_invalid,    \* responses it found invalid
  c_last,       \* the last response it received
  c_sleeps,     \* its time.sleep(0.5) calls
  c_result,     \* what it returned
  ff_pc,        \* the forward-fill loop of the daily-series main: position
  ff_start,     \* start_ts of the market
  ff_end,       \* end_ts of the market
  ff_yes,       \* yes_hist: date -> price
  ff_no,        \* no_hist: date -> price
  ff_rows       \* the rows written: [date, yes_p, no_p]

limVars == <<now, min_interval, last, nwaits, prev_release, wait_slept>>
reqVars == <<rpc, max_attempts, use_limiter, attempt, backoff, last_err,
             calls, slept, req_waits, nsleeps, all503, last_resp, result>>
cacheVars == <<gamma_file, agg_file, trades_log>>
fetchVars == <<f_trades, f_offset, f_result>>
mainVars == <<up, run, mpc, idx, cacheVars, m_trades, m_vol, m_cnt, m_truncated,
              fetchVars, out, prev_out, counters, reqlog, agg_written,
              outcome, disk>>
aggVars == <<a_pc, a_in, a_out>>
priceVars == <<p_pc, p_start, p_end, p_limit, p_cur, p_window_days, p_out, p_reqs, p_script>>
fillVars == <<ff_pc, ff_start, ff_end, ff_yes, ff_no, ff_rows>>
raceVars == <<w_pc, w_wake, w_release>>
classVars == <<c_pc, c_max, c_attempt, c_requests, c_invalid, c_last, c_sleeps, c_result>>
sideVars == <<raceVars, classVars>>
pureVars == <<aggVars, priceVars, fillVars, sideVars>>
vars == <<limVars, reqVars, mainVars, pureVars>>

(***************************************************************************)
(* Data: trades, lists of trades, cache files, the upstream                *)
(*                                                                         *)
(* A list of trade records is a sequence of runs [t |-> trade, n |-> k]:   *)
(* k consecutive equal records.  A field of a trade is [ok, v]: ok is      *)
(* FALSE for a missing or unparsable value.  A date is the day number      *)
(* ts \div 86400 (the order of days is the order of their YYYY-MM-DD       *)
(* strings).  Prices and sizes are integers.                               *)
(***************************************************************************)
Num(x) == [ok |-> TRUE, v |-> x]
Unparsable == [ok |-> FALSE, v |-> 0]

Mids == 1..MaxMarkets
\* the conditionId in the metadata of market mid
CidOf(mid) == mid
Cids == {CidOf(mid) : mid \in Mids}

\* needed[mid]: the sorted dates of interest of a market (read_needed_dates)
Needed(mid) == <<10 + 2 * mid, 11 + 2 * mid, 15 + 2 * mid, 18 + 2 * mid>>

\* the trade records upstream holds for condition id c, most recent first:
\* the records at offsets 500*k .. 500*k+499 are of day 18 + 2*c - k
UpstreamTrade(c, k) ==
  [timestamp |-> Num((18 + 2 * c - k) * DaySeconds + 3600 * c),
   price |-> Num(2), size |-> Num(5 + c)]

\* time.gmtime raises for a timestamp beyond the platform's range (about
\* 6.7e16 on Linux); the limit is scaled down to fit the checker's integers
GmtimeLimit == 2000000000
\* a record whose timestamp parses as a number that time.gmtime rejects
HugeTrade(c) ==
  [timestamp |-> Num(GmtimeLimit + 1), price |-> Num(2), size |-> Num(5 + c)]

\* the page the trade endpoint serves for (limit, offset) when it holds n records
UpstreamPage(c, n, limit, offset) ==
  IF offset >= n THEN <<>>
  ELSE <<[t |-> UpstreamTrade(c, offset \div limit), n |-> Min2(limit, n - offset)]>>

\* len(list)
RECURSIVE ListLen(_)
ListLen(l) == IF l = <<>> THEN 0 ELSE Head(l).n + ListLen(Tail(l))

\* files: absent, or present with a text
Absent == [kind |-> "absent"]
\* json.dumps(v) / json.loads(text)
JsonDumps(v) == [kind |-> "json", value |-> v]
JsonParses(file) == file.kind = "json"
JsonLoads(file) == file.value

NoLog == [exists |-> FALSE, lines |-> <<>>]

\* what request_json gives for GET /markets/<mid>
GammaBehaviours == {"raise", "null", "nocid", "ok"}
\* what request_json gives for a page of GET /trades, besides a list:
\*   cap   raises, text containing the upstream's offset-limit message
\*   error raises another error
\*   null  returns None (empty body); dict returns a JSON object
\* (a page can also be served with out-of-range timestamps: kind "hugets")
BadKinds == {"cap", "error", "null", "dict"}
NoBad == [at |-> -1, kind |-> "none"]

EmptyMap == [d \in {} |-> 0]
Unbound == [bound |-> FALSE, v |-> <<>>]
NoResult == [kind |-> "none"]
ZeroCounters == [ok |-> 0, gamma_fail |-> 0, trades_fail |-> 0, truncated_count |-> 0]

\* the state of a process that has just started, over an empty cache directory
InitProcess ==
  /\ idx = 1
  /\ m_trades = Unbound
  /\ m_vol = EmptyMap
  /\ m_cnt = EmptyMap
  /\ m_truncated = 0
  /\ f_trades = <<>>
  /\ f_offset = 0
  /\ f_result = NoResult
  /\ out = <<>>
  /\ counters = ZeroCounters
  /\ reqlog = <<>>
  /\ agg_written = {}
  /\ outcome = [m \in Mids |-> "none"]

InitCacheEmpty ==
  /\ gamma_file = [m \in Mids |-> Absent]
  /\ agg_file = [c \in Cids |-> Absent]
  /\ trades_log = [c \in Cids |-> NoLog]

\* aggregate_trades, the price fetcher and the forward fill are not running
InitAggIdle == a_pc = "off" /\ a_in = <<>> /\ a_out = [kind |-> "none"]
InitPriceIdle ==
  /\ p_pc = "off" /\ p_start = 0 /\ p_end = 0 /\ p_limit = 0
  /\ p_cur = 0 /\ p_window_days = 0 /\ p_out = EmptyMap /\ p_reqs = <<>>
  /\ p_script = <<>>
InitFillIdle ==
  /\ ff_pc = "off" /\ ff_start = 0 /\ ff_end = 0
  /\ ff_yes = EmptyMap /\ ff_no = EmptyMap /\ ff_rows = <<>>
Callers == {1, 2}
InitRaceIdle ==
  /\ w_pc = [c \in Callers |-> "off"]
  /\ w_wake = [c \in Callers |-> 0]
  /\ w_release = [c \in Callers |-> 0]
NoResponse == [kind |-> "none"]
InitClassIdle ==
  /\ c_pc = "off" /\ c_max = 0 /\ c_attempt = 0 /\ c_requests = 0 /\ c_invalid = 0
  /\ c_last = NoResponse /\ c_sleeps = 0 /\ c_result = [status |-> "none"]
InitSideIdle == InitRaceIdle /\ InitClassIdle
InitPureIdle == InitAggIdle /\ InitPriceIdle /\ InitFillIdle /\ InitSideIdle

\* main is not running (the limiter and request_json are looked at alone)
InitMainIdle ==
  /\ up = [gamma |-> [m \in Mids |-> "ok"],
           trades |-> [c \in Cids |-> [n |-> 0, bad |-> NoBad]]]
  /\ run = 1
  /\ mpc = "off"
  /\ prev_out = <<>>
  /\ disk = "ok"
  /\ InitProcess
  /\ InitCacheEmpty

(***************************************************************************)
(* RateLimiter                                                             *)
(***************************************************************************)
\* __init__: self.min_interval = 1.0 / max(rps, 0.1)
MinIntervalOf(rps) == 1000000 \div Max2(rps, RpsFloor)

\* a wait() that measures the gap from the previous call's start of sleep
WaitSleepShort(t, lst, mi) == IF t - lst < mi - 100 THEN mi - 100 - (t - lst) ELSE 0

\* wait(): the time to sleep, given the clock and self.last
WaitSleep(t, lst, mi) == IF t - lst < mi THEN mi - (t - lst) ELSE 0

\* wait() as a step of the clock and of the limiter's fields
LimiterWait ==
  /\ wait_slept' = WaitSleep(now, last, min_interval)
  /\ \E o \in Oversleep : now' = now + wait_slept' + (IF wait_slept' > 0 THEN o ELSE 0)
  /\ last' = now'
  /\ prev_release' = IF nwaits = 0 THEN -1 ELSE last
  /\ nwaits' = nwaits + 1
  /\ UNCHANGED min_interval

InitLimiter ==
  /\ now = StartClock
  /\ \E rps \in RpsChoices : min_interval = MinIntervalOf(rps)
  /\ last = 0
  /\ nwaits = 0
  /\ prev_release = -1
  /\ wait_slept = 0

InitReqIdle ==
  /\ rpc = "idle"
  /\ max_attempts = 0
  /\ use_limiter = FALSE
  /\ attempt = 0
  /\ backoff = 0
  /\ last_err = <<>>
  /\ calls = 0
  /\ slept = 0
  /\ req_waits = 0
  /\ nsleeps = 0
  /\ all503 = TRUE
  /\ last_resp = [kind |-> "none"]
  /\ result = [kind |-> "none"]

\* a caller calls wait() on the limiter
Wait ==
  /\ nwaits < MaxWaits
  /\ LimiterWait
  /\ UNCHANGED <<reqVars, mainVars, pureVars>>

\* time passes in the caller between two wait() calls (one step per gap)
Elapse ==
  /\ nwaits < MaxWaits
  /\ nwaits > 0
  /\ now - last < 30
  /\ \E d \in ElapseChoices \ {0} : now' = now + d
  /\ UNCHANGED <<min_interval, last, nwaits, prev_release, wait_slept>>
  /\ UNCHANGED <<reqVars, mainVars, pureVars>>

InitLim == InitLimiter /\ InitReqIdle /\ InitMainIdle /\ InitPureIdle
NextLim == Wait \/ Elapse
SpecLim == InitLim /\ [][NextLim]_vars

\* two threads call wait() on one RateLimiter at about the same time; wait()
\* takes no lock, so its statements interleave: read the clock and self.last
\* and decide the sleep (lines 20-22), sleep (line 23), write self.last
\* (line 24)
MaxRaceClock == 22000
RaceTicks == {1000, 20000}
LastChoices == {0, StartClock - 100, StartClock}

\* lines 20-23 up to the call of time.sleep
RaceRead(c) ==
  /\ w_pc[c] = "start"
  /\ LET sleep_for == WaitSleep(now, last, min_interval)
     IN /\ w_wake' = [w_wake EXCEPT ![c] = now + sleep_for]
        /\ w_pc' = [w_pc EXCEPT ![c] = IF sleep_for > 0 THEN "sleep" ELSE "write"]
  /\ UNCHANGED <<limVars, w_release>>
  /\ UNCHANGED <<reqVars, mainVars, aggVars, priceVars, fillVars, classVars>>

\* time.sleep returns once the clock has reached the end of the sleep
RaceWake(c) ==
  /\ w_pc[c] = "sleep"
  /\ now >= w_wake[c]
  /\ w_pc' = [w_pc EXCEPT ![c] = "write"]
  /\ UNCHANGED <<limVars, w_wake, w_release>>
  /\ UNCHANGED <<reqVars, mainVars, aggVars, priceVars, fillVars, classVars>>

\* line 24: self.last = time.time(), and wait() returns
RaceWrite(c) ==
  /\ w_pc[c] = "write"
  /\ last' = now
  /\ w_release' = [w_release EXCEPT ![c] = now]
  /\ w_pc' = [w_pc EXCEPT ![c] = "done"]
  /\ nwaits' = nwaits + 1
  /\ UNCHANGED <<now, min_interval, prev_release, wait_slept, w_wake>>
  /\ UNCHANGED <<reqVars, mainVars, aggVars, priceVars, fillVars, classVars>>

\* the clock moves on
RaceTick ==
  /\ \E c \in Callers : w_pc[c] # "done"
  /\ now < StartClock + MaxRaceClock
  /\ \E d \in RaceTicks : now' = now + d
  /\ UNCHANGED <<min_interval, last, nwaits, prev_release, wait_slept, raceVars>>
  /\ UNCHANGED <<reqVars, mainVars, aggVars, priceVars, fillVars, classVars>>

InitRace ==
  /\ now = StartClock
  /\ \E rps \in RpsChoices : min_interval = MinIntervalOf(rps)
  /\ last \in LastChoices
  /\ nwaits = 0 /\ prev_release = -1 /\ wait_slept = 0
  /\ InitReqIdle /\ InitMainIdle /\ InitAggIdle /\ InitPriceIdle /\ InitFillIdle
  /\ InitClassIdle
  /\ w_pc = [c \in Callers |-> "start"]
  /\ w_wake = [c \in Callers |-> 0]
  /\ w_release = [c \in Callers |-> 0]
NextRace == (\E c \in Callers : RaceRead(c) \/ RaceWake(c) \/ RaceWrite(c)) \/ RaceTick
SpecRace == InitRace /\ [][NextRace]_vars

(***************************************************************************)
(* request_json                                                            *)
(***************************************************************************)
\* if resp.status_code in (429, 500, 502, 503, 504)
RetryStatuses == {429, 500, 502, 503, 504}

\* the upstream's message for an offset past its limit
CapMsg == "max historical activity offset of 3000 exceeded"

\* what one HTTP call can give: a response (status, text) or a transport
\* exception (timeout, connection reset).  body "json" parses, "garbage"
\* does not.
Responses ==
  { [kind |-> "resp", status |-> 200, body |-> ""],
    [kind |-> "resp", status |-> 200, body |-> "json"],
    [kind |-> "resp", status |-> 200, body |-> "garbage"],
    [kind |-> "resp", status |-> 404, body |-> "not found"],
    [kind |-> "resp", status |-> 400, body |-> CapMsg],
    [kind |-> "resp", status |-> 429, body |-> "slow down"],
    [kind |-> "resp", status |-> 503, body |-> "unavailable"],
    [kind |-> "exc", status |-> 0, body |-> "timed out"] }

\* last_err = f"HTTP {resp.status_code}: {resp.text[:300]}"
HttpErrText(r) == <<"HTTP", ToString(r.status), r.body>>
\* str(e) of the exception the attempt raised
ExcText(r) ==
  IF r.kind = "exc" THEN <<r.body>>
  ELSE IF r.status < 400 THEN <<"Expecting value">>   \* resp.json() failed
  ELSE HttpErrText(r)                                  \* raise RuntimeError(last_err)

\* a final error text that leaves the cause out
FinalErrTextNoCause(le) == <<"GET", "url", "failed after retries:">>

\* f"{method} {url} failed after retries: {last_err}"
FinalErrText(le) == <<"GET", "url", "failed after retries:">> \o (IF le = <<>> THEN <<"None">> ELSE le)

\* the attempt returns (lines 38-41)
AttemptReturns(r) == r.kind = "resp" /\ r.status < 400 /\ r.body \in {"", "json"}
\* the value returned: None for an empty body, else the parsed JSON
ReturnValue(r) == IF r.body = "" THEN "None" ELSE "parsed"

\* backoff = min(backoff * 2, 16)
NextBackoff(b) == Min2(b * 2, BackoffCap)

\* request_json is called (lines 27-29)
ReqCall ==
  /\ rpc = "idle"
  /\ \E m \in 0..MaxAttempts : max_attempts' = m
  /\ \E l \in BOOLEAN : use_limiter' = l
  /\ backoff' = BackoffInit
  /\ last_err' = <<>>
  /\ attempt' = 1
  /\ rpc' = "loop"
  /\ UNCHANGED <<calls, slept, req_waits, nsleeps, all503, last_resp, result>>
  /\ UNCHANGED <<limVars, mainVars, pureVars>>

\* a pacing that waits before the first attempt only
PacedFirstOnly(limiter, a) == limiter /\ a = 1
\* line 31: if limiter, tested at the head of every iteration
Paced(limiter, a) == limiter

\* the head of one loop iteration: if limiter: limiter.wait()  (lines 30-32)
ReqLoopHead ==
  /\ rpc = "loop"
  /\ attempt <= max_attempts
  /\ IF Paced(use_limiter, attempt)
       THEN LimiterWait /\ req_waits' = req_waits + 1
       ELSE UNCHANGED limVars /\ UNCHANGED req_waits
  /\ rpc' = "send"
  /\ UNCHANGED <<max_attempts, use_limiter, attempt, backoff, last_err,
                 calls, slept, nsleeps, all503, last_resp, result>>
  /\ UNCHANGED <<mainVars, pureVars>>

\* the HTTP call of one attempt and what follows it (lines 33-52)
ReqAttempt ==
  /\ rpc = "send"
  /\ \E r \in Responses, d \in CallDurations, o \in Oversleep :
       /\ calls' = calls + 1
       /\ last_resp' = r
       /\ all503' = (all503 /\ r.kind = "resp" /\ r.status = 503)
       /\ IF AttemptReturns(r)
            THEN /\ result' = [kind |-> "return", value |-> ReturnValue(r)]
                 /\ rpc' = "done"
                 /\ now' = now + d
                 /\ UNCHANGED <<attempt, backoff, last_err, slept, nsleeps>>
            ELSE /\ last_err' = IF r.kind = "resp" /\ r.status \in RetryStatuses
                                 THEN HttpErrText(r) ELSE ExcText(r)
                 \* time.sleep(backoff); backoff = min(backoff * 2, 16); continue
                 /\ slept' = slept + backoff
                 /\ nsleeps' = nsleeps + 1
                 /\ now' = now + d + backoff + o
                 /\ backoff' = NextBackoff(backoff)
                 /\ attempt' = attempt + 1
                 /\ rpc' = "loop"
                 /\ UNCHANGED result
  /\ UNCHANGED <<max_attempts, use_limiter, req_waits>>
  /\ UNCHANGED <<min_interval, last, nwaits, prev_release, wait_slept>>
  /\ UNCHANGED <<mainVars, pureVars>>

\* the loop is over: raise RuntimeError(... failed after retries ...) (line 53)
ReqFail ==
  /\ rpc = "loop"
  /\ attempt > max_attempts
  /\ result' = [kind |-> "raise", text |-> FinalErrText(last_err)]
  /\ rpc' = "done"
  /\ UNCHANGED <<max_attempts, use_limiter, attempt, backoff, last_err,
                 calls, slept, req_waits, nsleeps, all503, last_resp>>
  /\ UNCHANGED <<limVars, mainVars, pureVars>>

InitReq == InitLimiter /\ InitReqIdle /\ InitMainIdle /\ InitPureIdle
NextReq == ReqCall \/ ReqLoopHead \/ ReqAttempt \/ ReqFail
SpecReq == InitReq /\ [][NextReq]_vars

(***************************************************************************)
(* fetch_all_trades, aggregate_trades and main                             *)
(* request_json is taken by its outcome: the JSON it returns or the error  *)
(* it raises (FinalErrText of the last response's error).                  *)
(***************************************************************************)
\* the text of the error request_json raises for a page
PageErrText(kind) ==
  IF kind = "cap" THEN FinalErrText(HttpErrText([status |-> 400, body |-> CapMsg]))
  ELSE FinalErrText(HttpErrText([status |-> 404, body |-> "not found"]))

\* token in text
TextHas(text, token) == \E i \in 1..Len(text) : text[i] = token

\* a capacity test that takes every transport error for the offset limit
IsCapErrorAlways(text) == TRUE

\* "max historical activity offset of 3000 exceeded" in msg
IsCapError(text) == TextHas(text, CapMsg)

\* a ceiling test that is off by one page
PastCeilingEarly(offset) == offset >= OffsetCeiling

\* if offset > 3000
PastCeiling(offset) == offset > OffsetCeiling

\* a page-size test that also stops on a full page
ShortPageOrFull(batch, limit) == ListLen(batch) <= limit

\* if len(batch) < limit
ShortPage(batch, limit) == ListLen(batch) < limit

\* trade_to_date line 182: time.gmtime(ts) is outside the try, it raises
TradeToDateRaises(t) == t.timestamp.ok /\ t.timestamp.v > GmtimeLimit

\* trade_to_date: None ([ok |-> FALSE]) or the UTC day of the timestamp
TradeToDate(t) ==
  IF ~t.timestamp.ok THEN Unparsable ELSE Num(t.timestamp.v \div DaySeconds)

\* dict[k] += x on a defaultdict
MapAdd(map, k, x) ==
  [j \in DOMAIN map \cup {k} |-> IF j = k THEN (IF k \in DOMAIN map THEN map[k] ELSE 0) + x
                                  ELSE map[j]]
\* dict.get(k, 0)
MapGet(map, k) == IF k \in DOMAIN map THEN map[k] ELSE 0

\* aggregate_trades: the loop over the list, from (vol, cnt)
RECURSIVE AggFrom(_, _, _)
AggFrom(l, vol, cnt) ==
  IF l = <<>> THEN [raised |-> FALSE, vol_by_date |-> vol, cnt_by_date |-> cnt]
  ELSE LET r == Head(l)
           d == TradeToDate(r.t)
       IN IF TradeToDateRaises(r.t)
          THEN [raised |-> TRUE, vol_by_date |-> vol, cnt_by_date |-> cnt]
          ELSE IF ~d.ok \/ ~r.t.price.ok \/ ~r.t.size.ok
          THEN AggFrom(Tail(l), vol, cnt)
          ELSE AggFrom(Tail(l), MapAdd(vol, d.v, r.n * r.t.price.v * r.t.size.v),
                       MapAdd(cnt, d.v, r.n))
AggregateTrades(l) == AggFrom(l, EmptyMap, EmptyMap)

\* min_trade_date calls trade_to_date on every record
MinTradeDateRaises(l) == \E i \in 1..Len(l) : TradeToDateRaises(l[i].t)

\* min_trade_date: None or the least date of the list
MinTradeDate(l) ==
  LET ds == {TradeToDate(l[i].t).v : i \in {j \in 1..Len(l) : TradeToDate(l[j].t).ok}}
  IN IF ds = {} THEN Unparsable ELSE Num(CHOOSE d \in ds : \A e \in ds : d <= e)

\* a reader of the log that stops at the first line it cannot use
RECURSIVE LogRecordsUntilBad(_)
LogRecordsUntilBad(lines) ==
  IF lines = <<>> \/ ~JsonParses(Head(lines)) THEN <<>>
  ELSE <<[t |-> Head(lines).value, n |-> Head(lines).n]>> \o LogRecordsUntilBad(Tail(lines))

\* the lines written for a batch, and the list read back from a log
LinesOf(batch) == [i \in 1..Len(batch) |-> [kind |-> "json", value |-> batch[i].t, n |-> batch[i].n]]
LogRecords(lines) ==
  LET good == SelectSeq(lines, JsonParses)
  IN [i \in 1..Len(good) |-> [t |-> good[i].value, n |-> good[i].n]]

\* the rows of a market that failed (lines 252-253, 270-271)
ZeroRows(mid) ==
  [i \in 1..Len(Needed(mid)) |->
     [market_id |-> mid, date |-> Needed(mid)[i], daily_volume |-> 0,
      trade_count |-> 0, truncated |-> 0]]

\* lines 278-280: min_date, None unless truncated and trades is a local
MinDateOf(truncated, trades) ==
  IF truncated # 0 /\ trades.bound THEN MinTradeDate(trades.v) ELSE Unparsable

\* line 280 is outside every try: when min_trade_date raises, main ends there
RowsAbort(truncated, trades) ==
  truncated # 0 /\ trades.bound /\ MinTradeDateRaises(trades.v)

\* a truncation test that spares the minimum date itself
IsTruncStrict(truncated, min_date, d) == truncated # 0 /\ min_date.ok /\ d < min_date.v

\* line 284: if truncated and min_date is not None and d <= min_date
IsTrunc(truncated, min_date, d) == truncated # 0 /\ min_date.ok /\ d <= min_date.v

\* the rows of a processed market (lines 282-292)
Rows(mid, vol, cnt, truncated, min_date) ==
  [i \in 1..Len(Needed(mid)) |->
     LET d == Needed(mid)[i]
         is_trunc == IsTrunc(truncated, min_date, d)
     IN [market_id |-> mid, date |-> d,
         daily_volume |-> IF is_trunc THEN 0 ELSE MapGet(vol, d),
         trade_count |-> IF is_trunc THEN 0 ELSE MapGet(cnt, d),
         truncated |-> IF is_trunc THEN 1 ELSE 0]]

NoGamma == [some |-> FALSE, conditionId |-> 0]
\* what request_json returns for GET /markets/<mid> (None when it raised)
GammaData(mid, behaviour) ==
  CASE behaviour = "ok" -> [some |-> TRUE, conditionId |-> CidOf(mid)]
    [] behaviour = "nocid" -> [some |-> TRUE, conditionId |-> 0]
    [] OTHER -> NoGamma

\* a cache test that never trusts the metadata file
GammaCacheHitNever(file) == FALSE

\* fetch_gamma_market lines 76-80: the file exists and parses
GammaCacheHit(file) == file.kind # "absent" /\ JsonParses(file)

\* an aggregation cache test that does not look for the two maps
AggCacheHitAnyJson(file) == file.kind # "absent" /\ JsonParses(file)

\* load_agg_cache: the tuple, or None
AggCacheHit(file) ==
  /\ file.kind # "absent"
  /\ JsonParses(file)
  /\ JsonLoads(file).has_vol /\ JsonLoads(file).has_cnt

\* the ways a write to the cache directory can end: done (TRUE), or an
\* exception that the enclosing try swallows (FALSE)
WriteOutcomes == IF disk = "flaky" THEN {TRUE, FALSE} ELSE {TRUE}
\* cache_file.write_text(text) inside try/except: pass
WriteText(file, text, done) == IF done THEN text ELSE file

\* a list that loses the page whose append to the log failed
TradesAfterAppendUndone(trades, batch, done) == IF done THEN trades \o batch ELSE trades

\* trades.extend(batch) and the append to the log inside try/except: pass
\* (lines 158-166): the page stays in the list whatever the append did
TradesAfterAppend(trades, batch, done) == trades \o batch

LogReq(ep, mid, offset) == [ep |-> ep, mid |-> mid, offset |-> offset]

\* lines 274-293 for the market at idx, with the locals as given
WriteRows(mid, vol, cnt, truncated, trades) ==
  IF RowsAbort(truncated, trades)
  THEN /\ counters' = [counters EXCEPT !.truncated_count = @ + 1]
       /\ mpc' = "aborted"
       /\ UNCHANGED <<out, outcome, idx>>
  ELSE /\ out' = out \o Rows(mid, vol, cnt, truncated, MinDateOf(truncated, trades))
       /\ counters' = [counters EXCEPT !.ok = @ + 1,
                         !.truncated_count = @ + (IF truncated # 0 THEN 1 ELSE 0)]
       /\ outcome' = [outcome EXCEPT ![mid] = "ok"]
       /\ idx' = idx + 1
       /\ mpc' = "loop"

\* one iteration of main's loop up to the call of fetch_all_trades
\* (lines 243-264), and to its end when that call is not made
MainIter ==
  /\ mpc = "loop"
  /\ idx <= MaxMarkets
  /\ \E w \in WriteOutcomes :
     LET mid == idx
         hit == GammaCacheHit(gamma_file[mid])
         beh == up.gamma[mid]
         gamma == IF hit THEN JsonLoads(gamma_file[mid]) ELSE GammaData(mid, beh)
         cid == gamma.conditionId
     IN /\ reqlog' = IF hit THEN reqlog ELSE Append(reqlog, LogReq("gamma", mid, 0))
        /\ gamma_file' = IF ~hit /\ gamma.some
                          THEN [gamma_file EXCEPT ![mid] = WriteText(@, JsonDumps(gamma), w)]
                          ELSE gamma_file
        /\ IF ~gamma.some \/ cid = 0
            THEN /\ out' = out \o ZeroRows(mid)
                 /\ counters' = [counters EXCEPT !.gamma_fail = @ + 1]
                 /\ outcome' = [outcome EXCEPT ![mid] = "gamma_fail"]
                 /\ idx' = idx + 1
                 /\ UNCHANGED <<mpc, m_vol, m_cnt, m_truncated>>
            ELSE IF AggCacheHit(agg_file[cid])
            THEN LET data == JsonLoads(agg_file[cid])
                 IN /\ m_vol' = data.vol_by_date
                    /\ m_cnt' = data.cnt_by_date
                    /\ m_truncated' = data.truncated
                    /\ WriteRows(mid, data.vol_by_date, data.cnt_by_date,
                                 data.truncated, m_trades)
            ELSE /\ mpc' = "call"
                 /\ UNCHANGED <<out, counters, outcome, idx, m_vol, m_cnt, m_truncated>>
  /\ UNCHANGED <<up, run, agg_file, trades_log, m_trades, fetchVars, prev_out, agg_written>>
  /\ UNCHANGED <<limVars, reqVars, pureVars, disk>>

\* fetch_all_trades up to its loop (lines 121-140)
FetchEnter ==
  /\ mpc = "call"
  /\ LET cid == CidOf(idx)
     IN IF trades_log[cid].exists
        THEN /\ f_result' = [kind |-> "return",
                             trades |-> LogRecords(trades_log[cid].lines),
                             truncated |-> 0]
             /\ mpc' = "fetched"
             /\ UNCHANGED <<f_trades, f_offset>>
        ELSE /\ f_trades' = <<>>
             /\ f_offset' = 0
             /\ f_result' = NoResult
             /\ mpc' = "fetch"
  /\ UNCHANGED <<up, run, idx, cacheVars, m_trades, m_vol, m_cnt, m_truncated,
                 out, prev_out, counters, reqlog, agg_written, outcome>>
  /\ UNCHANGED <<limVars, reqVars, pureVars, disk>>

\* one iteration of the loop of fetch_all_trades (lines 142-171)
FetchPage ==
  /\ mpc = "fetch"
  /\ \E w \in WriteOutcomes :
     LET cid == CidOf(idx)
         u == up.trades[cid]
         bad == IF u.bad.at = f_offset THEN u.bad.kind ELSE "none"
         page == UpstreamPage(cid, u.n, Limit, f_offset)
         batch == IF bad = "none" THEN page
                  ELSE IF bad = "hugets"
                  THEN [i \in 1..Len(page) |-> [t |-> HugeTrade(cid), n |-> page[i].n]]
                  ELSE <<>>
         all == TradesAfterAppend(f_trades, batch, w)
     IN IF PastCeiling(f_offset)
        THEN /\ f_result' = [kind |-> "return", trades |-> f_trades, truncated |-> 1]
             /\ mpc' = "fetched"
             /\ UNCHANGED <<f_trades, f_offset, trades_log, reqlog>>
        ELSE /\ reqlog' = Append(reqlog, LogReq("trades", idx, f_offset))
             /\ IF bad \in {"cap", "error"}
                 THEN /\ f_result' = IF IsCapError(PageErrText(bad))
                                      THEN [kind |-> "return", trades |-> f_trades, truncated |-> 1]
                                      ELSE [kind |-> "raise", text |-> PageErrText(bad)]
                      /\ mpc' = "fetched"
                      /\ UNCHANGED <<f_trades, f_offset, trades_log>>
                 ELSE /\ f_trades' = all
                      /\ trades_log' =
                           IF batch # <<>> /\ w
                           THEN [trades_log EXCEPT ![cid] =
                                   [exists |-> TRUE, lines |-> @.lines \o LinesOf(batch)]]
                           ELSE trades_log
                      /\ IF ShortPage(batch, Limit)
                          THEN /\ f_result' = [kind |-> "return", trades |-> all, truncated |-> 0]
                               /\ mpc' = "fetched"
                               /\ UNCHANGED f_offset
                          ELSE /\ f_offset' = f_offset + Limit
                               /\ UNCHANGED <<f_result, mpc>>
  /\ UNCHANGED <<up, run, idx, gamma_file, agg_file, m_trades, m_vol, m_cnt, m_truncated,
                 out, prev_out, counters, agg_written, outcome>>
  /\ UNCHANGED <<limVars, reqVars, pureVars, disk>>

\* main after fetch_all_trades returned or raised (lines 264-293)
MainAfterFetch ==
  /\ mpc = "fetched"
  /\ \E w \in WriteOutcomes :
     LET mid == idx
         cid == CidOf(idx)
     IN IF f_result.kind = "raise"
        THEN /\ out' = out \o ZeroRows(mid)
             /\ counters' = [counters EXCEPT !.trades_fail = @ + 1]
             /\ outcome' = [outcome EXCEPT ![mid] = "trades_fail"]
             /\ idx' = idx + 1
             /\ mpc' = "loop"
             /\ UNCHANGED <<m_trades, m_vol, m_cnt, m_truncated, agg_file, agg_written>>
        ELSE LET agg == AggregateTrades(f_result.trades)
                 tr == [bound |-> TRUE, v |-> f_result.trades]
             IN IF agg.raised
                THEN /\ m_trades' = tr
                     /\ m_truncated' = f_result.truncated
                     /\ out' = out \o ZeroRows(mid)
                     /\ counters' = [counters EXCEPT !.trades_fail = @ + 1]
                     /\ outcome' = [outcome EXCEPT ![mid] = "trades_fail"]
                     /\ idx' = idx + 1
                     /\ mpc' = "loop"
                     /\ UNCHANGED <<m_vol, m_cnt, agg_file, agg_written>>
                ELSE
                /\ m_trades' = tr
                /\ m_truncated' = f_result.truncated
                /\ m_vol' = agg.vol_by_date
                /\ m_cnt' = agg.cnt_by_date
                /\ agg_file' = [agg_file EXCEPT ![cid] =
                      WriteText(@, JsonDumps([has_vol |-> TRUE, has_cnt |-> TRUE,
                                              vol_by_date |-> agg.vol_by_date,
                                              cnt_by_date |-> agg.cnt_by_date,
                                              truncated |-> f_result.truncated]), w)]
                /\ agg_written' = IF w THEN agg_written \cup {cid} ELSE agg_written
                /\ WriteRows(mid, agg.vol_by_date, agg.cnt_by_date, f_result.truncated, tr)
  /\ UNCHANGED <<up, run, gamma_file, trades_log, fetchVars, prev_out, reqlog>>
  /\ UNCHANGED <<limVars, reqVars, pureVars, disk>>

\* the loop of main is over (lines 295-296)
MainDone ==
  /\ mpc = "loop"
  /\ idx > MaxMarkets
  /\ mpc' = "end"
  /\ UNCHANGED <<up, run, idx, cacheVars, m_trades, m_vol, m_cnt, m_truncated,
                 fetchVars, out, prev_out, counters, reqlog, agg_written, outcome>>
  /\ UNCHANGED <<limVars, reqVars, pureVars, disk>>

\* the process of main is over: its loop ended, or an exception left main
MainOver == mpc \in {"end", "aborted"}

\* main is run again: a new process, the same cache directory, input and upstream
RunAgain ==
  /\ mpc \in {"end", "aborted"}
  /\ run < MaxRuns
  /\ run' = run + 1
  /\ prev_out' = out
  /\ mpc' = "loop"
  /\ idx' = 1
  /\ m_trades' = Unbound
  /\ m_vol' = EmptyMap
  /\ m_cnt' = EmptyMap
  /\ m_truncated' = 0
  /\ f_trades' = <<>>
  /\ f_offset' = 0
  /\ f_result' = NoResult
  /\ out' = <<>>
  /\ counters' = ZeroCounters
  /\ reqlog' = <<>>
  /\ agg_written' = {}
  /\ outcome' = [m \in Mids |-> "none"]
  /\ UNCHANGED <<up, cacheVars>>
  /\ UNCHANGED <<limVars, reqVars, pureVars, disk>>

\* the upstream behaviours followed through whole runs of main
MainTradeBehaviours ==
  { [n |-> 1, bad |-> NoBad],
    [n |-> 4000, bad |-> NoBad],
    [n |-> 700, bad |-> [at |-> 0, kind |-> "error"]],
    [n |-> 1200, bad |-> [at |-> 1000, kind |-> "error"]],
    [n |-> 1200, bad |-> [at |-> 1000, kind |-> "cap"]],
    [n |-> 2500, bad |-> [at |-> 2000, kind |-> "cap"]],
    [n |-> 700, bad |-> [at |-> 500, kind |-> "hugets"]] }

\* the upstream behaviours followed through a single fetch: every size around
\* a multiple of the page size, and one request answered by something other than
\* a page (the offset-limit error never at offset 0)
FetchTradeBehaviours ==
  { [n |-> q * Limit + r, bad |-> b] :
      q \in 0..MaxPages, r \in {0, 1, Limit - 1},
      b \in {NoBad} \cup ({[at |-> k * Limit, kind |-> kd] : k \in 0..MaxPages, kd \in BadKinds}
                           \ {[at |-> 0, kind |-> "cap"]}) }

Init ==
  /\ InitLimiter /\ InitReqIdle
  /\ up \in [gamma : [Mids -> GammaBehaviours], trades : [Cids -> MainTradeBehaviours]]
  /\ \A m \in Mids : up.gamma[m] # "ok" => up.trades[CidOf(m)] = [n |-> 1, bad |-> NoBad]
  /\ run = 1
  /\ mpc = "loop"
  /\ prev_out = <<>>
  /\ disk = "ok"
  /\ InitProcess
  /\ InitCacheEmpty
  /\ InitPureIdle
Next == MainIter \/ FetchEnter \/ FetchPage \/ MainAfterFetch \/ MainDone \/ RunAgain
Spec == Init /\ [][Next]_vars

\* a cache file that exists and is not JSON
Garbage == [kind |-> "garbage"]
\* an aggregation file that is a JSON object without one of the two maps
AggLacking ==
  {JsonDumps([has_vol |-> hv, has_cnt |-> hc, vol_by_date |-> EmptyMap,
              cnt_by_date |-> EmptyMap, truncated |-> 0]) :
     hv, hc \in BOOLEAN} \ {JsonDumps([has_vol |-> TRUE, has_cnt |-> TRUE,
                                        vol_by_date |-> EmptyMap, cnt_by_date |-> EmptyMap,
                                        truncated |-> 0])}
\* between two runs a whole-object cache file is corrupted
Damage ==
  /\ MainOver
  /\ run < MaxRuns
  /\ \/ \E m \in Mids : /\ gamma_file[m] # Garbage
                         /\ gamma_file' = [gamma_file EXCEPT ![m] = Garbage]
                         /\ UNCHANGED agg_file
     \/ \E c \in Cids, f \in {Garbage} \cup AggLacking :
          /\ AggCacheHit(agg_file[c]) \/ agg_file[c] = Absent
          /\ agg_file' = [agg_file EXCEPT ![c] = f]
          /\ UNCHANGED gamma_file
  /\ UNCHANGED <<up, run, mpc, idx, trades_log, m_trades, m_vol, m_cnt, m_truncated,
                 fetchVars, out, prev_out, counters, reqlog, agg_written, outcome, disk>>
  /\ UNCHANGED <<limVars, reqVars, pureVars>>
NextHeal == Next \/ Damage
SpecHeal == Init /\ [][NextHeal]_vars

\* the upstream behaviours followed when writes can fail: one page, three
\* pages, a truncation after two pages, an error after one page
DiskTradeBehaviours ==
  { [n |-> 1, bad |-> NoBad],
    [n |-> 1200, bad |-> NoBad],
    [n |-> 1200, bad |-> [at |-> 1000, kind |-> "cap"]],
    [n |-> 700, bad |-> [at |-> 500, kind |-> "error"]] }

\* one run of main over an empty cache directory whose writes can fail
InitDisk ==
  /\ InitLimiter /\ InitReqIdle
  /\ up \in [gamma : [Mids -> GammaBehaviours], trades : [Cids -> DiskTradeBehaviours]]
  /\ \A m \in Mids : up.gamma[m] # "ok" => up.trades[CidOf(m)] = [n |-> 1, bad |-> NoBad]
  /\ run = 1
  /\ mpc = "loop"
  /\ prev_out = <<>>
  /\ disk = "flaky"
  /\ InitProcess
  /\ InitCacheEmpty
  /\ InitPureIdle
NextDisk == MainIter \/ FetchEnter \/ FetchPage \/ MainAfterFetch \/ MainDone
SpecDisk == InitDisk /\ [][NextDisk]_vars

\* a single call fetch_all_trades(data_base, condition id 1, ...), no cache on disk
InitFetch ==
  /\ InitLimiter /\ InitReqIdle
  /\ \E b \in FetchTradeBehaviours :
       up = [gamma |-> [m \in Mids |-> "ok"],
             trades |-> [c \in Cids |-> IF c = 1 THEN b ELSE [n |-> 0, bad |-> NoBad]]]
  /\ run = 1
  /\ mpc = "call"
  /\ prev_out = <<>>
  /\ disk = "ok"
  /\ InitProcess
  /\ InitCacheEmpty
  /\ InitPureIdle
NextFetch == FetchEnter \/ FetchPage
SpecFetch == InitFetch /\ [][NextFetch]_vars

\* a call fetch_all_trades(data_base, condition id 1, ...) over a cache
\* directory that may hold a trade log: lines that are JSON values, lines that
\* do not parse, blank lines
BlankLine == [kind |-> "blank"]
GarbageLine == [kind |-> "garbage"]
LogLineChoices ==
  {[kind |-> "json", value |-> UpstreamTrade(1, k), n |-> 1] : k \in {0, 1}}
    \cup {BlankLine, GarbageLine}
LogChoices ==
  {NoLog} \cup {[exists |-> TRUE, lines |-> ls] :
                   ls \in UNION {[1..k -> LogLineChoices] : k \in 0..MaxLogLines}}
InitLog ==
  /\ InitLimiter /\ InitReqIdle
  /\ \E b \in {[n |-> 1, bad |-> NoBad], [n |-> 600, bad |-> NoBad]} :
       up = [gamma |-> [m \in Mids |-> "ok"],
             trades |-> [c \in Cids |-> IF c = 1 THEN b ELSE [n |-> 0, bad |-> NoBad]]]
  /\ run = 1
  /\ mpc = "call"
  /\ prev_out = <<>>
  /\ disk = "ok"
  /\ InitProcess
  /\ gamma_file = [m \in Mids |-> Absent]
  /\ agg_file = [c \in Cids |-> Absent]
  /\ \E lg \in LogChoices : trades_log = [c \in Cids |-> IF c = 1 THEN lg ELSE NoLog]
  /\ InitPureIdle
NextLog == FetchEnter \/ FetchPage
SpecLog == InitLog /\ [][NextLog]_vars

(***************************************************************************)
(* aggregate_trades on its own: any list of raw records                    *)
(***************************************************************************)
\* the raw records tried: two times of one day, another day, each field
\* unparsable in turn, and a timestamp time.gmtime rejects
RawTimestamps == {Num(10 * DaySeconds + 5), Num(10 * DaySeconds + 80000),
                  Num(11 * DaySeconds), Unparsable, Num(GmtimeLimit + 1)}
RawTrades ==
  {[timestamp |-> ts, price |-> Num(2), size |-> Num(5)] : ts \in RawTimestamps}
  \cup {[timestamp |-> Num(10 * DaySeconds + 5), price |-> Num(3), size |-> Num(7)],
         [timestamp |-> Num(10 * DaySeconds + 5), price |-> Unparsable, size |-> Num(5)],
         [timestamp |-> Num(11 * DaySeconds), price |-> Num(2), size |-> Unparsable],
         [timestamp |-> Num(GmtimeLimit + 1), price |-> Unparsable, size |-> Num(5)]}
TradeLists ==
  UNION {[1..k -> {[t |-> r, n |-> 1] : r \in RawTrades}] : k \in 0..MaxTrades}

\* the call aggregate_trades(a_in): what it returns, or that it raised
AggOutcome(l) ==
  LET agg == AggregateTrades(l)
  IN IF agg.raised THEN [kind |-> "raise"]
     ELSE [kind |-> "return", vol_by_date |-> agg.vol_by_date,
           cnt_by_date |-> agg.cnt_by_date]

Aggregate ==
  /\ a_pc = "call"
  /\ a_out' = AggOutcome(a_in)
  /\ a_pc' = "done"
  /\ UNCHANGED <<a_in, priceVars, fillVars, sideVars, limVars, reqVars, mainVars>>

InitAgg ==
  /\ InitLimiter /\ InitReqIdle /\ InitMainIdle /\ InitPriceIdle /\ InitFillIdle
  /\ InitSideIdle
  /\ a_pc = "call"
  /\ a_in \in TradeLists
  /\ a_out = [kind |-> "none"]
NextAgg == Aggregate
SpecAgg == InitAgg /\ [][NextAgg]_vars

(***************************************************************************)
(* fetch_prices_history_daily (polymarket_closed_markets_daily.py)         *)
(*                                                                         *)
(* The price endpoint accepts a window [startTs, endTs] of at most p_limit *)
(* days and answers a longer one with an error whose text holds "interval  *)
(* is too long".  An accepted window is answered with one point per UTC    *)
(* midnight inside it.                                                     *)
(***************************************************************************)
\* the window lengths (days) the endpoint may be limited to; 0 rejects all
LimitChoices == {0, 1, 2, 3, 7, 8, 15, 30, 31}
StartChoices == {0, 5 * 3600}
SpanChoices == {d * DaySeconds + r : d \in 0..MaxSpanDays, r \in {0, 1, 2}}

\* ts_to_utc_date
TsToUtcDate(ts) == ts \div DaySeconds
\* the endpoint's verdict on the window [from, to]
TooLong(from, to) == to - from > p_limit * DaySeconds
\* the history of an accepted window: the midnights in it, with their prices
HistoryDays(from, to) == {k \in TsToUtcDate(from)..TsToUtcDate(to) : from <= k * DaySeconds}
PriceAt(k) == k % 5
\* out[ts_to_utc_date(t)] = p for every item
PutHistory(map, from, to) ==
  [k \in DOMAIN map \cup HistoryDays(from, to) |->
     IF k \in HistoryDays(from, to) THEN PriceAt(k) ELSE map[k]]

\* the items recorded before the item of day bad, which is malformed
PutBefore(map, from, to, bad) ==
  LET ks == {k \in HistoryDays(from, to) : k < bad}
  IN [k \in DOMAIN map \cup ks |-> IF k \in ks THEN PriceAt(k) ELSE map[k]]

\* the answers of the endpoint: a history, the 'interval is too long'
\* rejection, another failure (_request_with_retry raises RuntimeError), a
\* history with an item whose t or p is missing or not a number
Verdicts == {"ok", "toolong", "error", "malformed"}
\* the requests issued so far (the safety valve's entries are not requests)
NumRequests == Cardinality({i \in 1..Len(p_reqs) : p_reqs[i].kind # "skip"})
\* the answer to the next request, for the window [from, to]
VerdictOf(from, to) ==
  LET v == IF NumRequests + 1 <= Len(p_script) THEN p_script[NumRequests + 1]
           ELSE IF TooLong(from, to) THEN "toolong" ELSE "ok"
  IN IF v = "malformed" /\ HistoryDays(from, to) = {} THEN "ok" ELSE v

\* a halving that rounds up
HalvedUp(w) == (w + 1) \div 2
\* line 277: window_days = window_days // 2
Halved(w) == w \div 2
\* a valve that leaves the cursor where it is
ValveStay(cur) == cur
\* line 282: cur += 86400
ValveAdvance(cur) == cur + DaySeconds

\* one request of the inner loop (lines 262-279), with what follows it up to
\* the next request: the safety valve (lines 280-282) and the reset of
\* window_days at the head of the outer loop (line 260)
PriceRequest ==
  /\ p_pc = "loop"
  /\ p_cur < p_end
  /\ LET window_end == Min2(p_end, p_cur + p_window_days * DaySeconds)
         halved == Halved(p_window_days)
         verdict == VerdictOf(p_cur, window_end)
     IN CASE verdict = "ok" ->
             /\ p_out' = PutHistory(p_out, p_cur, window_end)
             /\ p_cur' = window_end + 1
             /\ p_window_days' = MaxDays
             /\ p_reqs' = Append(p_reqs, [from |-> p_cur, to |-> window_end, kind |-> "ok"])
             /\ UNCHANGED p_pc
          [] verdict = "toolong" ->
             /\ p_reqs' = p_reqs \o <<[from |-> p_cur, to |-> window_end, kind |-> "toolong"]>>
                               \o (IF halved >= 1 THEN <<>>
                                   ELSE <<[from |-> p_cur, to |-> ValveAdvance(p_cur),
                                           kind |-> "skip"]>>)
             /\ IF halved >= 1
                 THEN /\ p_window_days' = halved
                      /\ UNCHANGED p_cur
                 ELSE /\ p_cur' = ValveAdvance(p_cur)
                      /\ p_window_days' = MaxDays
             /\ UNCHANGED <<p_out, p_pc>>
          [] verdict = "error" ->
             \* line 279: raise
             /\ p_reqs' = Append(p_reqs, [from |-> p_cur, to |-> window_end, kind |-> "error"])
             /\ p_pc' = "raised"
             /\ UNCHANGED <<p_out, p_cur, p_window_days>>
          [] verdict = "malformed" ->
             \* int(item.get("t")) or float(item.get("p")) raises inside the
             \* try (lines 269-271); the handler re-raises (line 279)
             /\ \E bad \in HistoryDays(p_cur, window_end) :
                  p_out' = PutBefore(p_out, p_cur, window_end, bad)
             /\ p_reqs' = Append(p_reqs, [from |-> p_cur, to |-> window_end,
                                          kind |-> "malformed"])
             /\ p_pc' = "raised"
             /\ UNCHANGED <<p_cur, p_window_days>>
  /\ UNCHANGED <<p_start, p_end, p_limit, p_script>>
  /\ UNCHANGED <<aggVars, fillVars, sideVars, limVars, reqVars, mainVars>>

\* while cur < end_ts is over: return out (lines 259, 283)
PriceReturn ==
  /\ p_pc = "loop"
  /\ p_cur >= p_end
  /\ p_pc' = "returned"
  /\ UNCHANGED <<p_start, p_end, p_limit, p_cur, p_window_days, p_out, p_reqs, p_script>>
  /\ UNCHANGED <<aggVars, fillVars, sideVars, limVars, reqVars, mainVars>>

InitPrices ==
  /\ InitLimiter /\ InitReqIdle /\ InitMainIdle /\ InitAggIdle /\ InitFillIdle
  /\ InitSideIdle
  /\ p_pc = "loop"
  /\ p_start \in StartChoices
  /\ p_end \in {p_start + sp : sp \in SpanChoices}
  /\ p_limit \in LimitChoices
  /\ p_cur = p_start
  /\ p_window_days = MaxDays
  /\ p_out = EmptyMap
  /\ p_reqs = <<>>
  /\ p_script = <<>>
NextPrices == PriceRequest \/ PriceReturn
SpecPrices == InitPrices /\ [][NextPrices]_vars

\* the fetcher against an endpoint whose first answers are arbitrary
ScriptLimits == {0, 1, 30}
ScriptSpans == {1, DaySeconds + 1, 3 * DaySeconds, 31 * DaySeconds + 1, 33 * DaySeconds}
Scripts == UNION {[1..k -> Verdicts] : k \in 0..MaxScript}
InitWindowOver(scripts, spans) ==
  /\ InitLimiter /\ InitReqIdle /\ InitMainIdle /\ InitAggIdle /\ InitFillIdle
  /\ InitSideIdle
  /\ p_pc = "loop"
  /\ p_start \in StartChoices
  /\ p_end \in {p_start + sp : sp \in spans}
  /\ p_limit \in ScriptLimits
  /\ p_cur = p_start
  /\ p_window_days = MaxDays
  /\ p_out = EmptyMap
  /\ p_reqs = <<>>
  /\ p_script \in scripts
InitWindow == InitWindowOver(Scripts, ScriptSpans)
SpecWindow == InitWindow /\ [][NextPrices]_vars

\* the fetcher against an endpoint that only accepts or rejects; the loops of
\* the fetcher go on until it returns or raises
AcceptRejectScripts == UNION {[1..k -> {"ok", "toolong"}] : k \in 0..MaxScript}
ValveSpans == {1, DaySeconds + 1, 3 * DaySeconds, 6 * DaySeconds + 1}
InitValve == InitWindowOver(AcceptRejectScripts, ValveSpans)
SpecValve == InitValve /\ [][NextPrices]_vars /\ WF_vars(NextPrices)

(***************************************************************************)
(* The forward fill of the daily series (main of                           *)
(* polymarket_closed_markets_daily.py, lines 435-452)                      *)
(***************************************************************************)
\* an empty CSV cell
EmptyCell == [ok |-> FALSE, v |-> 0]
\* utc_date_range: the dates from that of start_ts to that of end_ts
UtcDateRange(start_ts, end_ts) ==
  [i \in 1..(TsToUtcDate(end_ts) - TsToUtcDate(start_ts) + 1) |-> TsToUtcDate(start_ts) + i - 1]

\* a cell that is also empty for a price of zero
CellOfTruthy(seen) == IF seen.ok /\ seen.v # 0 THEN Num(seen.v) ELSE EmptyCell

\* last_yes if last_yes is not None else ""
CellOf(seen) == IF seen.ok THEN Num(seen.v) ELSE EmptyCell

\* the loop over all_dates (lines 439-452), from (last_yes, last_no)
RECURSIVE FillFrom(_, _, _, _, _)
FillFrom(dates, yes_hist, no_hist, last_yes, last_no) ==
  IF dates = <<>> THEN <<>>
  ELSE LET d == Head(dates)
           ly == IF d \in DOMAIN yes_hist THEN Num(yes_hist[d]) ELSE last_yes
           ln == IF d \in DOMAIN no_hist THEN Num(no_hist[d]) ELSE last_no
       IN <<[date |-> d, yes_p |-> CellOf(ly), no_p |-> CellOf(ln)]>>
          \o FillFrom(Tail(dates), yes_hist, no_hist, ly, ln)

ForwardFill ==
  /\ ff_pc = "call"
  /\ ff_rows' = FillFrom(UtcDateRange(ff_start, ff_end), ff_yes, ff_no, EmptyCell, EmptyCell)
  /\ ff_pc' = "done"
  /\ UNCHANGED <<ff_start, ff_end, ff_yes, ff_no>>
  /\ UNCHANGED <<aggVars, priceVars, sideVars, limVars, reqVars, mainVars>>

\* the markets tried: a start early or at the last second of day 5, an end up
\* to MaxFillDays days later, observations on any of the days around the range
\* (a price of 0 included)
FillStarts == {5 * DaySeconds + 100, 5 * DaySeconds + 86399}
FillSpans == {0, 1} \cup {k * DaySeconds : k \in 1..MaxFillDays}
FillDates == 4..(5 + MaxFillDays)
YesHists == UNION {[ds -> {0, 3}] : ds \in SUBSET FillDates}
NoHists == {EmptyMap} \cup {[d \in {k} |-> 7] : k \in FillDates}
              \cup {[d \in {5, k} |-> IF d = 5 THEN 0 ELSE 7] : k \in FillDates \ {5}}

InitFill ==
  /\ InitLimiter /\ InitReqIdle /\ InitMainIdle /\ InitAggIdle /\ InitPriceIdle
  /\ InitSideIdle
  /\ ff_pc = "call"
  /\ ff_start \in FillStarts
  /\ ff_end \in {ff_start + sp : sp \in FillSpans}
  /\ ff_yes \in YesHists
  /\ ff_no \in NoHists
  /\ ff_rows = <<>>
NextFill == ForwardFill
SpecFill == InitFill /\ [][NextFill]_vars

(***************************************************************************)
(* classify_markets_groq_domains.py: classify_market                       *)
(***************************************************************************)
\* the text of the key "date" in a model answer: empty, or day, month and
\* year around a separator, the day and the month written with two digits
\* (05/01/2026) or without a leading zero (5/1/2026)
EmptyDate == [some |-> FALSE]
DateText(dd, mm, yyyy, sep, padded) ==
  [some |-> TRUE, dd |-> dd, mm |-> mm, yyyy |-> yyyy, sep |-> sep, padded |-> padded]
DateChoices ==
  {EmptyDate, DateText(5, 11, 2026, "/", TRUE), DateText(31, 2, 2026, "/", TRUE),
   DateText(29, 2, 2024, "/", TRUE), DateText(5, 11, 2026, "-", TRUE),
   DateText(11, 13, 2026, "/", TRUE), DateText(5, 1, 2026, "/", FALSE)}
TypeChoices == {"1", "2", "U", "3", ""}
DomainChoices == {"finance", "sports", "politics", "misc", "crypto", ""}

LeapYear(y) == (y % 4 = 0 /\ y % 100 # 0) \/ y % 400 = 0
DaysInMonth(m, y) ==
  IF m = 2 THEN (IF LeapYear(y) THEN 29 ELSE 28)
  ELSE IF m \in {4, 6, 9, 11} THEN 30 ELSE 31
\* is_ddmmyyyy: datetime.strptime(s, "%d/%m/%Y") does not raise; %d and %m
\* match one or two digits, %Y four
IsDdMmYyyy(d) ==
  /\ d.some /\ d.sep = "/"
  /\ d.mm \in 1..12
  /\ d.dd \in 1..DaysInMonth(d.mm, d.yyyy)

\* what _request_once and the lookup resp["choices"][0]["message"]["content"]
\* give: an exception of _request_once (status >= 400, network), no content
\* (text = ""), a text that is no JSON object, a JSON object
ClassResponses ==
  {[kind |-> "raise"], [kind |-> "nocontent"], [kind |-> "notjson"]}
    \cup {[kind |-> "json", type |-> t, domain |-> d, date |-> dt] :
            t \in TypeChoices, d \in DomainChoices, dt \in DateChoices}

NoneTriple == [ok |-> FALSE, type |-> "", domain |-> "", date |-> EmptyDate]
\* parse_response: (None, None, None) or (t, d, date_str)
ParseResponse(r) ==
  IF r.kind # "json" THEN NoneTriple
  ELSE IF r.type \notin {"1", "2", "U"} THEN NoneTriple
  ELSE IF r.domain \notin {"finance", "sports", "politics", "misc"} THEN NoneTriple
  ELSE IF r.date.some /\ ~IsDdMmYyyy(r.date) THEN NoneTriple
  ELSE IF ~r.date.some /\ r.type # "U" THEN NoneTriple
  ELSE IF r.date.some /\ r.type = "U" THEN NoneTriple
  ELSE [ok |-> TRUE, type |-> r.type, domain |-> r.domain, date |-> r.date]

InvalidResult ==
  [type |-> "", domain |-> "", date |-> EmptyDate, status |-> "error",
   error |-> "invalid_response"]

\* one iteration of the loop of classify_market (lines 120-144)
ClassifyAttempt ==
  /\ c_pc = "loop"
  /\ c_attempt <= c_max
  /\ \E r \in ClassResponses :
       LET p == ParseResponse(r)
       IN /\ c_requests' = c_requests + 1
          /\ c_last' = r
          /\ IF r.kind = "raise"
               THEN /\ c_pc' = "raised"
                    /\ UNCHANGED <<c_attempt, c_invalid, c_sleeps, c_result>>
               ELSE IF p.ok /\ p.type # "" /\ p.domain # ""
               THEN /\ c_result' = [type |-> p.type, domain |-> p.domain, date |-> p.date,
                                    status |-> "ok", error |-> ""]
                    /\ c_pc' = "returned"
                    /\ UNCHANGED <<c_attempt, c_invalid, c_sleeps>>
               ELSE /\ c_invalid' = c_invalid + 1
                    /\ c_sleeps' = c_sleeps + (IF c_attempt < c_max THEN 1 ELSE 0)
                    /\ c_attempt' = c_attempt + 1
                    /\ UNCHANGED <<c_pc, c_result>>
  /\ UNCHANGED c_max
  /\ UNCHANGED <<limVars, reqVars, mainVars, aggVars, priceVars, fillVars, raceVars>>

\* the loop is over without a return (line 146)
ClassifyFail ==
  /\ c_pc = "loop"
  /\ c_attempt > c_max
  /\ c_result' = InvalidResult
  /\ c_pc' = "returned"
  /\ UNCHANGED <<c_max, c_attempt, c_requests, c_invalid, c_last, c_sleeps>>
  /\ UNCHANGED <<limVars, reqVars, mainVars, aggVars, priceVars, fillVars, raceVars>>

InitClassify ==
  /\ InitLimiter /\ InitReqIdle /\ InitMainIdle
  /\ InitAggIdle /\ InitPriceIdle /\ InitFillIdle /\ InitRaceIdle
  /\ c_pc = "loop"
  /\ c_max \in 0..MaxClassAttempts
  /\ c_attempt = 1
  /\ c_requests = 0 /\ c_invalid = 0 /\ c_sleeps = 0
  /\ c_last = NoResponse
  /\ c_result = [status |-> "none"]
NextClassify == ClassifyAttempt \/ ClassifyFail
SpecClassify == InitClassify /\ [][NextClassify]_vars




(***************************************************************************)
(* Properties of RateLimiter and request_json                              *)
(***************************************************************************)
RECURSIVE Pow2(_)
Pow2(n) == IF n <= 0 THEN 1 ELSE 2 * Pow2(n - 1)

\* sum of min(2^(k-1), 16) seconds for k = 1 .. n, in ms
RECURSIVE SumBackoff(_)
SumBackoff(n) == IF n <= 0 THEN 0 ELSE SumBackoff(n - 1) + Min2(Pow2(n - 1) * 1000, 16000)

\* text a contains text b
Contains(a, b) ==
  \E i \in 1..(Len(a) - Len(b) + 1) : SubSeq(a, i, i + Len(b) - 1) = b

\* the text of the error observed in response r
ObservedErr(r) ==
  IF r.kind = "exc" THEN <<r.body>>
  ELSE IF r.status >= 400 THEN <<"HTTP", ToString(r.status), r.body>>
  ELSE <<"Expecting value">>

\* C6 (as claimed): when every response has status 503, request_json makes
\* exactly max_attempts HTTP calls, sleeps max_attempts-1 times for a total of
\* sum(min(2^(k-1),16) for k in 1..max_attempts-1) seconds, then fails.
C6_BackoffBoundClaim ==
  (rpc = "done" /\ all503 /\ max_attempts >= 1) =>
     /\ result.kind = "raise"
     /\ calls = max_attempts
     /\ nsleeps = max_attempts - 1
     /\ slept = SumBackoff(max_attempts - 1)

\* C7 (as claimed): a response with status below 400 whose non-empty body does
\* not parse makes request_json fail at once: no backoff sleep and no further
\* attempt follow it.
C7_ProtocolFatalClaim ==
  [][ (rpc = "send" /\ rpc' # "send"
       /\ last_resp'.kind = "resp" /\ last_resp'.status < 400
       /\ last_resp'.body = "garbage")
      => (rpc' = "done" /\ result'.kind = "raise" /\ nsleeps' = nsleeps) ]_vars

\* C8: every failed attempt, whatever its kind (retryable status, other status
\* >= 400, transport exception), uses one attempt of the one counter and one
\* step of the one backoff curve; the HTTP calls never exceed max_attempts; and
\* the final error's text contains the text of the last observed error.
C8_SharedRetryCounter ==
  /\ calls <= max_attempts
  /\ rpc = "loop" =>
       /\ calls = attempt - 1
       /\ nsleeps = calls
       /\ slept = SumBackoff(calls)
       /\ backoff = Min2(Pow2(calls) * 1000, 16000)
       /\ calls > 0 => last_err = ObservedErr(last_resp)
  /\ (rpc = "done" /\ result.kind = "raise") =>
       /\ calls = max_attempts
       /\ calls > 0 => /\ Contains(result.text, ObservedErr(last_resp))
                        /\ Contains(result.text, last_err)

\* C8 witness: a call that failed after a non-retryable status and a transport
\* exception, with the backoff at its cap.
C8_Witness ==
  /\ rpc = "done" /\ result.kind = "raise"
  /\ max_attempts >= 6
  /\ last_resp.kind = "resp" /\ last_resp.status = 404
  /\ backoff = 16000

\* C9: the release times of two consecutive wait() calls on one limiter are at
\* least min_interval = 1/max(r, 0.1) apart, and the first wait() of a new
\* instance does not sleep.
C9_RateLimit ==
  /\ nwaits >= 2 => last - prev_release >= min_interval
  /\ nwaits = 1 => wait_slept = 0

\* C9 witness: a second or later wait() that had to sleep, on the clamped rate.
C9_Witness ==
  /\ nwaits >= 2
  /\ wait_slept > 0
  /\ min_interval = 10000
  /\ last - prev_release >= min_interval

(***************************************************************************)
(* Properties of fetch_all_trades and main                                 *)
(***************************************************************************)
\* the first k pages of the upstream history of condition id c holding n records
RECURSIVE FirstPages(_, _, _)
FirstPages(c, n, k) ==
  IF k <= 0 THEN <<>> ELSE FirstPages(c, n, k - 1) \o UpstreamPage(c, n, 500, (k - 1) * 500)

\* the single fetch followed by SpecFetch: its upstream, its requests
FetchUp == up.trades[1]
FetchDone == mpc = "fetched"
FetchReturned == FetchDone /\ f_result.kind = "return"
\* the request at the misbehaving offset was issued
BadHit == \E i \in 1..Len(reqlog) : reqlog[i].offset = FetchUp.bad.at
\* every request was answered with a page
WellServed == ~BadHit

\* C1 (as claimed): a second run of main over the same upstream, input and
\* cache directory writes exactly the rows the first run wrote.
C1_IdempotentRerunClaim ==
  (mpc = "end" /\ run >= 2) => out = prev_out

\* C2: while main handles a market whose metadata file and aggregation file are
\* on disk and parse, it issues no HTTP request, does not call fetch_all_trades
\* and writes neither the aggregation file nor the trade log.
C2_CacheHitShortCircuits ==
  [][ (/\ mpc = "loop" /\ idx <= MaxMarkets
       /\ gamma_file[idx].kind = "json"
       /\ gamma_file[idx].value.conditionId # 0
       /\ agg_file[gamma_file[idx].value.conditionId].kind = "json")
      => (/\ reqlog' = reqlog
          /\ mpc' \in {"loop", "aborted"}
          /\ agg_file' = agg_file /\ agg_written' = agg_written
          /\ trades_log' = trades_log /\ gamma_file' = gamma_file
          /\ mpc' = "loop" => /\ idx' = idx + 1
                              /\ Len(out') = Len(out) + Len(Needed(idx))) ]_vars

\* C2 witness: in a second run the first market was served from the cache, with
\* no request, and the second is about to be.
C2_Witness ==
  /\ run = 2 /\ mpc = "loop" /\ idx = 2
  /\ counters.ok = 1
  /\ reqlog = <<>>
  /\ agg_written = {}
  /\ gamma_file[2].kind = "json" /\ agg_file[2].kind = "json"

\* C3 (as claimed): against an endpoint that serves N records in pages of 500,
\* a fresh fetch stops after at most ceil(N/500) requests and returns all N
\* records with truncated=0.
C3_PaginationClaim ==
  (FetchDone /\ FetchUp.bad = NoBad) =>
     /\ f_result.kind = "return"
     /\ Len(reqlog) <= (FetchUp.n + 499) \div 500
     /\ f_result.truncated = 0
     /\ ListLen(f_result.trades) = FetchUp.n

\* C3 (amended): it stops after at most floor(N/500)+1 requests, and when
\* N < 3500 it returns all N records with truncated=0.
C3_Pagination ==
  (FetchDone /\ FetchUp.bad = NoBad) =>
     /\ f_result.kind = "return"
     /\ Len(reqlog) <= FetchUp.n \div 500 + 1
     /\ FetchUp.n < 3500 =>
          /\ f_result.truncated = 0
          /\ ListLen(f_result.trades) = FetchUp.n
          /\ f_result.trades = FirstPages(1, FetchUp.n, FetchUp.n \div 500 + 1)

\* C3 witness: 1000 records, fetched with three requests.
C3_Witness ==
  /\ FetchReturned /\ FetchUp.bad = NoBad
  /\ FetchUp.n = 1000
  /\ Len(reqlog) = 3
  /\ f_result.truncated = 0

\* C4: a fresh fetch requests the offsets 0, 500, ... in order and none above
\* 3000, so at most 7 requests and 3500 records; when the page at offset 3000 is
\* full it stops without another request and returns truncated=1 with the 3500
\* records fetched.
C4_OffsetCeiling ==
  /\ Len(reqlog) <= 7
  /\ \A i \in 1..Len(reqlog) : reqlog[i].offset = (i - 1) * 500 /\ reqlog[i].offset <= 3000
  /\ ListLen(f_trades) <= 3500
  /\ (FetchDone /\ FetchUp.n >= 3500 /\ FetchUp.bad.at \notin {500 * k : k \in 0..6}) =>
        /\ f_result.kind = "return"
        /\ f_result.truncated = 1
        /\ Len(reqlog) = 7
        /\ f_result.trades = FirstPages(1, FetchUp.n, 7)
        /\ ListLen(f_result.trades) = 3500

\* C4 witness: 4000 records upstream, the fetch ended at the ceiling.
C4_Witness ==
  /\ FetchReturned
  /\ FetchUp.n = 4000 /\ FetchUp.bad = NoBad
  /\ f_result.truncated = 1
  /\ reqlog[Len(reqlog)].offset = 3000

\* C5 (as claimed): truncated=1 means the upstream holds strictly more records
\* than were returned, and truncated=0 means the returned records are the
\* complete upstream history.
C5_TruncationMeaningClaim ==
  FetchReturned =>
     /\ f_result.truncated = 1 => FetchUp.n > ListLen(f_result.trades)
     /\ f_result.truncated = 0 => /\ ListLen(f_result.trades) = FetchUp.n
                                  /\ f_result.trades = FirstPages(1, FetchUp.n, FetchUp.n \div 500 + 1)

\* C5 (amended): truncated=1 means the fetch stopped at the ceiling after 7 full
\* pages or on the upstream's offset-limit error, and the upstream holds at
\* least (not always more than) the records returned; truncated=0 means the
\* returned records are the complete upstream history provided every response
\* was a list (a response that is not a list ends the fetch as an empty page).
C5_TruncationMeaning ==
  FetchReturned =>
     /\ f_result.truncated = 1 =>
          /\ FetchUp.n >= ListLen(f_result.trades)
          /\ \/ ListLen(f_result.trades) = 3500
             \/ (BadHit /\ FetchUp.bad.kind = "cap")
     /\ (f_result.truncated = 0 /\ WellServed) =>
          /\ ListLen(f_result.trades) = FetchUp.n
          /\ f_result.trades = FirstPages(1, FetchUp.n, FetchUp.n \div 500 + 1)
     /\ (f_result.truncated = 0 /\ ~WellServed) =>
          /\ FetchUp.bad.kind \in {"null", "dict"}
          /\ f_result.trades = FirstPages(1, FetchUp.n, FetchUp.bad.at \div 500)

\* C5 witness: exactly 3500 records upstream, all returned, truncated=1.
C5_Witness ==
  /\ FetchReturned
  /\ FetchUp.n = 3500 /\ FetchUp.bad = NoBad
  /\ f_result.truncated = 1
  /\ ListLen(f_result.trades) = 3500

\* C10: when the request for a page fails with an error whose text contains the
\* upstream's offset-limit message, the fetch returns truncated=1 with exactly
\* the records of the pages before it and issues no further request; any other
\* error of a page request is raised to the caller unchanged.
C10_CapErrorTruncates ==
  (FetchDone /\ BadHit) =>
     /\ reqlog[Len(reqlog)].offset = FetchUp.bad.at
     /\ FetchUp.bad.kind = "cap" =>
          /\ f_result.kind = "return"
          /\ f_result.truncated = 1
          /\ f_result.trades = FirstPages(1, FetchUp.n, FetchUp.bad.at \div 500)
     /\ FetchUp.bad.kind = "error" =>
          /\ f_result.kind = "raise"
          /\ f_result.text = <<"GET", "url", "failed after retries:", "HTTP", "404", "not found">>

\* C10 witness: the third request failed with the offset-limit message after two
\* full pages.
C10_Witness ==
  /\ FetchReturned /\ BadHit
  /\ FetchUp.bad = [at |-> 1000, kind |-> "cap"]
  /\ FetchUp.n = 1001
  /\ ListLen(f_result.trades) = 1000
  /\ f_result.truncated = 1

(***************************************************************************)
(* Failure isolation, failure rows, cache writes, truncation               *)
(***************************************************************************)
\* the (market id, needed date) pairs of the input, in the order of main's loops
RECURSIVE PairsFrom(_)
PairsFrom(mid) ==
  IF mid > MaxMarkets THEN <<>>
  ELSE [i \in 1..Len(Needed(mid)) |-> <<mid, Needed(mid)[i]>>] \o PairsFrom(mid + 1)
KeysOf(rows) == [i \in 1..Len(rows) |-> <<rows[i].market_id, rows[i].date>>]
IsZeroRow(r) == r.daily_volume = 0 /\ r.trade_count = 0

\* C11: whatever the per-market outcomes, when main is over it has written exactly
\* one row for every (market id, needed date) pair, the rows of a market that
\* failed carry volume 0 and count 0, and ok + gamma_fail + trades_fail is the
\* number of markets
C11_FailureIsolationClaim ==
  MainOver =>
    /\ KeysOf(out) = PairsFrom(1)
    /\ \A i \in 1..Len(out) :
         outcome[out[i].market_id] \in {"gamma_fail", "trades_fail"} => IsZeroRow(out[i])
    /\ counters.ok + counters.gamma_fail + counters.trades_fail = MaxMarkets

\* the values of a row besides its key
RowValues(r) == <<r.daily_volume, r.trade_count, r.truncated>>
Failed(mid) == outcome[mid] \in {"gamma_fail", "trades_fail"}

\* C12: a row written for a market whose metadata fetch or trade fetch failed
\* differs, in its field values, from every row of a successfully processed
\* market (so also from those of a date on which that market had no trades)
C12_FailureRowsFlaggedClaim ==
  \A i, j \in 1..Len(out) :
    (Failed(out[i].market_id) /\ outcome[out[j].market_id] = "ok")
      => RowValues(out[i]) # RowValues(out[j])

\* C13: when fetch_all_trades has raised, no cache file of that condition id
\* has been written: neither agg_<cid>.json nor trades_<cid>.jsonl exists
C13_CacheAfterSuccessClaim ==
  (mpc = "fetched" /\ f_result.kind = "raise")
    => /\ agg_file[CidOf(idx)].kind = "absent"
       /\ ~trades_log[CidOf(idx)].exists

\* C14: every row a run wrote with truncated=1 is written again, with
\* truncated=1 and zero volume and count, by the next run over the same cache
\* directory
C14_StickyTruncationClaim ==
  (MainOver /\ run >= 2)
    => \A i \in 1..Len(prev_out) :
         prev_out[i].truncated = 1 => (i <= Len(out) /\ out[i] = prev_out[i])

\* the request log ends with a page request for the market at idx: the
\* trade list in f_result was fetched in this run, not read from the log
FreshFetch ==
  /\ reqlog # <<>>
  /\ reqlog[Len(reqlog)].ep = "trades"
  /\ reqlog[Len(reqlog)].mid = idx
\* the records of a list that count: timestamp, price and size all parse
ValidRuns(l) ==
  SelectSeq(l, LAMBDA r : r.t.timestamp.ok /\ r.t.price.ok /\ r.t.size.ok)
DayOf(r) == r.t.timestamp.v \div DaySeconds
\* the sum of price*size, and the number, of the valid records of day d
RECURSIVE VolOn(_, _)
VolOn(l, d) ==
  IF l = <<>> THEN 0
  ELSE (IF DayOf(Head(l)) = d THEN Head(l).n * Head(l).t.price.v * Head(l).t.size.v ELSE 0)
       + VolOn(Tail(l), d)
RECURSIVE CntOn(_, _)
CntOn(l, d) ==
  IF l = <<>> THEN 0
  ELSE (IF DayOf(Head(l)) = d THEN Head(l).n ELSE 0) + CntOn(Tail(l), d)
\* the days of the records whose timestamp parses
DaysOf(l) == {l[i].t.timestamp.v \div DaySeconds : i \in {j \in 1..Len(l) : l[j].t.timestamp.ok}}
\* the rows the step has appended to the output
NewRows == SubSeq(out', Len(out) + 1, Len(out'))

Rearranged(l, f) == [i \in 1..Len(l) |-> l[f[i]]]
\* the dates that have a record whose three fields parse
ValidDays(l) == {DayOf(ValidRuns(l)[i]) : i \in 1..Len(ValidRuns(l))}

\* C16: aggregate_trades returns for every list; for each date the volume is
\* the sum of price*size and the count the number of the records whose three
\* fields parse; a date without such a record is in neither map; and every
\* rearrangement of the list gives the same result
C16_AggregationClaim ==
  a_pc = "done" =>
    /\ a_out.kind = "return"
    /\ DOMAIN a_out.vol_by_date = ValidDays(a_in)
    /\ DOMAIN a_out.cnt_by_date = ValidDays(a_in)
    /\ \A d \in ValidDays(a_in) :
         /\ a_out.vol_by_date[d] = VolOn(ValidRuns(a_in), d)
         /\ a_out.cnt_by_date[d] = CntOn(ValidRuns(a_in), d)
    /\ \A f \in Permutations(1..Len(a_in)) : AggOutcome(Rearranged(a_in, f)) = a_out

(***************************************************************************)
(* Price windows                                                           *)
(***************************************************************************)
\* the accepted requests, in order
Accepted == SelectSeq(p_reqs, LAMBDA q : q.kind = "ok")

\* C17: against an endpoint that rejects exactly the windows longer than W
\* days (W >= 1), when the fetcher has returned every accepted window is at
\* most W days long, the safety valve was never taken, and the accepted
\* windows cover start_ts..end_ts: the first starts at start_ts, each next
\* one starts one second after the previous one's end, the last ends at end_ts
C17_WindowShrinkClaim ==
  (p_pc = "returned" /\ p_limit >= 1) =>
    /\ \A i \in 1..Len(p_reqs) : p_reqs[i].kind # "skip"
    /\ \A i \in 1..Len(Accepted) : Accepted[i].to - Accepted[i].from <= p_limit * DaySeconds
    /\ Accepted # <<>>
    /\ Accepted[1].from = p_start
    /\ \A i \in 1..(Len(Accepted) - 1) : Accepted[i + 1].from = Accepted[i].to + 1
    /\ Accepted[Len(Accepted)].to = p_end

(***************************************************************************)
(* Forward fill                                                            *)
(***************************************************************************)
FirstDate == TsToUtcDate(ff_start)
LastDate == TsToUtcDate(ff_end)
\* the dates of the range up to d on which hist has an observation
ObservedUpTo(hist, d) == {e \in DOMAIN hist : FirstDate <= e /\ e <= d}
\* the observation of the latest of them, or the empty cell
Filled(hist, d) ==
  IF ObservedUpTo(hist, d) = {} THEN EmptyCell
  ELSE Num(hist[CHOOSE e \in ObservedUpTo(hist, d) : \A g \in ObservedUpTo(hist, d) : g <= e])

\* C18: the forward fill writes exactly one row per date from the start date
\* to the end date, in increasing order; for each token the value of date d
\* is the observation of the latest date <= d of the range that has one, and
\* the empty cell (not zero) when there is none; YES and NO are filled each
\* from its own observations
C18_ForwardFill ==
  ff_pc = "done" =>
    /\ Len(ff_rows) = LastDate - FirstDate + 1
    /\ \A i \in 1..Len(ff_rows) :
         /\ ff_rows[i].date = FirstDate + i - 1
         /\ ff_rows[i].yes_p = Filled(ff_yes, ff_rows[i].date)
         /\ ff_rows[i].no_p = Filled(ff_no, ff_rows[i].date)
\* a fill over four dates whose YES series starts empty, then carries an
\* observed price of zero over a date without observation, while the NO series
\* carries another value
C18_Witness ==
  /\ ff_pc = "done" /\ Len(ff_rows) = 4
  /\ ff_rows[1].yes_p = EmptyCell
  /\ ff_rows[2].yes_p = Num(0) /\ ff_rows[2].date \in DOMAIN ff_yes
  /\ ff_rows[3].yes_p = Num(0) /\ ff_rows[3].date \notin DOMAIN ff_yes
  /\ ff_rows[4].yes_p = Num(3)
  /\ ff_rows[3].no_p = Num(7)

(***************************************************************************)
(* Corrupt cache files, failing cache writes                               *)
(***************************************************************************)
\* the file exists and its read fails: fetch_gamma_market falls through to
\* the request, load_agg_cache returns None
CorruptGamma(file) == file.kind = "garbage"
CorruptAgg(file) ==
  \/ file.kind = "garbage"
  \/ file.kind = "json" /\ ~(file.value.has_vol /\ file.value.has_cnt)
\* the file holds a JSON object with both maps
WholeAgg(file) == file.kind = "json" /\ file.value.has_vol /\ file.value.has_cnt

\* C19: a metadata file that does not parse is read as a missing one: the
\* metadata is requested and, when the request gives data, the file is
\* rewritten with it; an aggregation file that does not parse or lacks a map
\* is read as a missing one: main calls fetch_all_trades and writes nothing
\* yet, and when the fetch and the aggregation are done the file is rewritten
\* with their result; in neither case does main stop
C19_CorruptionSelfHeals ==
  [][ /\ (mpc = "loop" /\ idx <= MaxMarkets /\ CorruptGamma(gamma_file[idx]))
          => /\ reqlog' = Append(reqlog, LogReq("gamma", idx, 0))
             /\ up.gamma[idx] \in {"ok", "nocid"}
                  => gamma_file'[idx] = JsonDumps(GammaData(idx, up.gamma[idx]))
             /\ up.gamma[idx] \in {"raise", "null", "nocid"}
                  => outcome'[idx] = "gamma_fail" /\ mpc' = "loop" /\ idx' = idx + 1
      /\ (/\ mpc = "loop" /\ idx <= MaxMarkets
          /\ gamma_file[idx].kind = "json" \/ up.gamma[idx] = "ok"
          /\ gamma_file[idx].kind = "json" => gamma_file[idx].value.conditionId # 0
          /\ CorruptAgg(agg_file[CidOf(idx)]))
          => mpc' = "call" /\ out' = out /\ agg_file' = agg_file
      /\ (/\ mpc = "fetched" /\ f_result.kind = "return"
          /\ ~AggregateTrades(f_result.trades).raised
          /\ CorruptAgg(agg_file[CidOf(idx)]))
          => /\ WholeAgg(agg_file'[CidOf(idx)])
             /\ JsonLoads(agg_file'[CidOf(idx)]).vol_by_date
                  = AggregateTrades(f_result.trades).vol_by_date
             /\ JsonLoads(agg_file'[CidOf(idx)]).cnt_by_date
                  = AggregateTrades(f_result.trades).cnt_by_date
             /\ JsonLoads(agg_file'[CidOf(idx)]).truncated = f_result.truncated
             /\ outcome'[idx] = "ok" ]_vars
\* in a second run, the metadata of market 1 has been requested again and its
\* aggregation written again although the first run had written both files:
\* both were corrupted in between, and both parse again
C19_Witness ==
  /\ run = 2 /\ idx = 2 /\ mpc = "loop"
  /\ up.gamma[1] = "ok" /\ up.trades[1] = [n |-> 1, bad |-> NoBad]
  /\ \E i \in 1..Len(reqlog) : reqlog[i] = LogReq("gamma", 1, 0)
  /\ 1 \in agg_written
  /\ gamma_file[1].kind = "json" /\ WholeAgg(agg_file[1])
  /\ outcome[1] = "ok"

\* what a fetch of condition id c returns or raises when nothing is read from
\* the disk: the pages from offset on, after the records acc and nreq requests
RECURSIVE ExpFetch(_, _, _, _)
ExpFetch(c, offset, acc, nreq) ==
  LET u == up.trades[c]
      bad == IF u.bad.at = offset THEN u.bad.kind ELSE "none"
      page == UpstreamPage(c, u.n, Limit, offset)
      batch == IF bad = "none" THEN page
               ELSE IF bad = "hugets"
               THEN [i \in 1..Len(page) |-> [t |-> HugeTrade(c), n |-> page[i].n]]
               ELSE <<>>
  IN IF offset > OffsetCeiling
     THEN [res |-> [kind |-> "return", trades |-> acc, truncated |-> 1], nreq |-> nreq]
     ELSE IF bad = "cap"
     THEN [res |-> [kind |-> "return", trades |-> acc, truncated |-> 1], nreq |-> nreq + 1]
     ELSE IF bad = "error"
     THEN [res |-> [kind |-> "raise", text |-> PageErrText(bad)], nreq |-> nreq + 1]
     ELSE IF ListLen(batch) < Limit
     THEN [res |-> [kind |-> "return", trades |-> acc \o batch, truncated |-> 0],
           nreq |-> nreq + 1]
     ELSE ExpFetch(c, offset + Limit, acc \o batch, nreq + 1)
\* the rows main writes for a market when nothing is read from the disk
ExpRows(mid) ==
  IF up.gamma[mid] # "ok" THEN ZeroRows(mid)
  ELSE LET r == ExpFetch(CidOf(mid), 0, <<>>, 0).res
       IN IF r.kind = "raise" THEN ZeroRows(mid)
          ELSE LET agg == AggregateTrades(r.trades)
               IN IF agg.raised THEN ZeroRows(mid)
                  ELSE Rows(mid, agg.vol_by_date, agg.cnt_by_date, r.truncated,
                            MinDateOf(r.truncated, [bound |-> TRUE, v |-> r.trades]))
RECURSIVE ExpOutFrom(_)
ExpOutFrom(mid) == IF mid > MaxMarkets THEN <<>> ELSE ExpRows(mid) \o ExpOutFrom(mid + 1)
\* the offsets of the page requests issued for market mid, in order
PageOffsets(mid) ==
  LET qs == SelectSeq(reqlog, LAMBDA q : q.ep = "trades" /\ q.mid = mid)
  IN [i \in 1..Len(qs) |-> qs[i].offset]

\* C20: in a first run over an empty cache directory whose writes may each
\* fail, main goes on to the trades of exactly the markets whose metadata
\* request gave a conditionId, fetch_all_trades asks for the offsets 0, 500,
\* 1000, ... in turn and returns or raises exactly what the upstream alone
\* determines, and at the end main has written exactly the rows the upstream
\* alone determines: no write failure changes any of them
C20_BestEffortWrites ==
  run = 1 =>
    /\ mpc # "aborted"
    /\ mpc \in {"call", "fetch", "fetched"} => up.gamma[idx] = "ok"
    /\ mpc = "fetch" =>
         /\ PageOffsets(idx) = [i \in 1..(f_offset \div Limit) |-> (i - 1) * Limit]
         /\ f_trades = FirstPages(CidOf(idx), f_offset, f_offset \div Limit)
    /\ mpc = "fetched" =>
         /\ f_result = ExpFetch(CidOf(idx), 0, <<>>, 0).res
         /\ PageOffsets(idx) =
              [i \in 1..ExpFetch(CidOf(idx), 0, <<>>, 0).nreq |-> (i - 1) * Limit]
    /\ mpc = "loop" => out = SubSeq(ExpOutFrom(1), 1, Len(out))
    /\ mpc = "end" => out = ExpOutFrom(1)
\* the first run has ended with market 1 processed from three pages although
\* its metadata file, its trade log and its aggregation file are all missing:
\* every write for it failed
C20_Witness ==
  /\ run = 1 /\ mpc = "end" /\ disk = "flaky"
  /\ up.gamma[1] = "ok" /\ up.trades[1] = [n |-> 1200, bad |-> NoBad]
  /\ gamma_file[1] = Absent /\ agg_file[1] = Absent /\ ~trades_log[1].exists
  /\ outcome[1] = "ok"
  /\ \E i \in 1..Len(out) : out[i].market_id = 1 /\ out[i].trade_count = 500

(***************************************************************************)
(* An existing trade log                                                   *)
(***************************************************************************)
\* the JSON values of the lines of a log, in file order
LogValues(lines) ==
  LET keep == {i \in 1..Len(lines) : lines[i].kind = "json"}
      nth(k) == CHOOSE i \in keep : Cardinality({j \in keep : j <= i}) = k
  IN [k \in 1..Cardinality(keep) |-> [t |-> lines[nth(k)].value, n |-> lines[nth(k)].n]]

\* C21: a call of fetch_all_trades that finds trades_<cid>.jsonl issues no
\* request, leaves the file as it is and returns the JSON values of its
\* parseable, non-blank lines in file order with truncated=0
C21_ExistingLogSkipsFetch ==
  [][ (mpc = "call" /\ trades_log[CidOf(idx)].exists)
        => /\ reqlog' = reqlog
           /\ trades_log' = trades_log
           /\ mpc' = "fetched"
           /\ f_result' = [kind |-> "return",
                           trades |-> LogValues(trades_log[CidOf(idx)].lines),
                           truncated |-> 0] ]_vars
\* the call has returned two records from a log of three lines whose second
\* line does not parse, without a request
C21_Witness ==
  /\ mpc = "fetched" /\ reqlog = <<>>
  /\ trades_log[1].exists /\ Len(trades_log[1].lines) = 3
  /\ trades_log[1].lines[2] = GarbageLine
  /\ f_result.kind = "return" /\ Len(f_result.trades) = 2 /\ f_result.truncated = 0

(***************************************************************************)
(* The trade list behind the truncation rule                               *)
(***************************************************************************)
\* every record of the list is a trade of condition id c
TradesOf(c, trades) ==
  \A i \in 1..Len(trades) : trades[i].t.size = Num(5 + c)

\* the step of main that serves the market at idx from its aggregation cache
\* and goes on to line 278 with truncated set
CachedTruncatedStep ==
  /\ mpc = "loop" /\ idx <= MaxMarkets
  /\ m_truncated' # 0
  /\ \/ mpc' = "aborted"
     \/ idx' = idx + 1 /\ outcome'[idx] = "ok"

\* C22: the minimum date of a market's truncation rule is computed from the
\* trades of its own condition id only, so its rows do not depend on the
\* markets processed before it
C22_NoCrossEntityLeakageClaim ==
  [][ (CachedTruncatedStep /\ m_trades.bound) => TradesOf(CidOf(idx), m_trades.v) ]_vars

(***************************************************************************)
(* The adaptive window                                                     *)
(***************************************************************************)
\* the request a step of the fetcher has just issued
StepRequest == SelectSeq(p_reqs', LAMBDA q : q.kind # "skip")[NumRequests + 1]
\* the fetcher issues a request in this step
RequestStep == p_pc = "loop" /\ p_cur < p_end /\ p_reqs' # p_reqs
\* the steps of the halving series that are at least one day
HalvingSeries == <<30, 15, 7, 3, 1>>
NextInSeries(w) == HalvingSeries[1 + CHOOSE i \in 1..4 : HalvingSeries[i] = w]

\* C23: each request is for the window from the cursor to the cursor plus
\* window_days days, clamped to end_ts, the first one at a cursor with 30 days;
\* an 'interval is too long' rejection leaves the cursor and the output map
\* unchanged and goes down the series 30, 15, 7, 3, 1; a success sets the
\* cursor to window_end + 1 and window_days back to 30; every other failure
\* leaves the fetcher by an exception
C23_WindowStepRule ==
  [][ RequestStep =>
        LET q == StepRequest
        IN /\ q.from = p_cur
           /\ q.to = Min2(p_end, p_cur + p_window_days * DaySeconds)
           /\ p_window_days \in {HalvingSeries[i] : i \in 1..5}
           /\ (p_cur' # p_cur => p_window_days' = MaxDays)
           /\ (p_reqs = <<>> => p_window_days = MaxDays)
           /\ (q.kind = "toolong" /\ p_window_days > 1)
                => /\ p_cur' = p_cur /\ p_out' = p_out /\ p_pc' = "loop"
                   /\ p_window_days' = NextInSeries(p_window_days)
           /\ q.kind = "ok"
                => /\ p_cur' = q.to + 1 /\ p_window_days' = MaxDays /\ p_pc' = "loop"
           /\ q.kind \in {"error", "malformed"} => p_pc' = "raised" ]_vars
\* a full 30-day window was rejected, the 15-day window at the same cursor
\* was accepted, and the next request starts one second after its end
C23_Witness ==
  \E i \in 1..(Len(p_reqs) - 2) :
    /\ p_reqs[i].kind = "toolong" /\ p_reqs[i].to - p_reqs[i].from = 30 * DaySeconds
    /\ p_reqs[i + 1].kind = "ok" /\ p_reqs[i + 1].from = p_reqs[i].from
    /\ p_reqs[i + 1].to - p_reqs[i + 1].from = 15 * DaySeconds
    /\ p_reqs[i + 2].from = p_reqs[i + 1].to + 1

\* the endpoint answers with histories and 'interval is too long' only
SuccessesAndRejections ==
  \A i \in 1..Len(p_script) : p_script[i] \in {"ok", "toolong"}
\* the requests issued at cursor c
RequestsAt(c) == {i \in 1..Len(p_reqs) : p_reqs[i].from = c /\ p_reqs[i].kind # "skip"}

\* C24: with start_ts < end_ts and an endpoint that only accepts or rejects
\* with 'interval is too long', the fetcher returns; the cursor never goes
\* back and moves on after at most 5 requests at one position; when the
\* 1-day window is rejected the cursor advances by exactly 86400 seconds and
\* the output map is unchanged
C24_SafetyValveProgress ==
  /\ (SuccessesAndRejections /\ p_start < p_end) => <>(p_pc = "returned")
  /\ [](\A i \in 1..Len(p_reqs) : Cardinality(RequestsAt(p_reqs[i].from)) <= 5)
  /\ [][ RequestStep =>
           /\ p_cur' >= p_cur
           /\ (p_pc' = "loop" /\ p_cur' = p_cur) => p_window_days' < p_window_days
           /\ (StepRequest.kind = "toolong" /\ p_window_days = 1)
                => p_cur' = p_cur + DaySeconds /\ p_out' = p_out ]_vars
\* the fetcher has returned after five rejections at its first cursor and the
\* valve's step of one day
C24_Witness ==
  /\ p_pc = "returned" /\ SuccessesAndRejections
  /\ Len(p_reqs) >= 6
  /\ \A i \in 1..5 : p_reqs[i].kind = "toolong" /\ p_reqs[i].from = p_start
  /\ p_reqs[6] = [from |-> p_start, to |-> p_start + DaySeconds, kind |-> "skip"]

\* C25: an item of a price history whose t or p is missing or not a number
\* is dropped; the fetcher does not raise on it
C25_MalformedDroppedClaim ==
  \A i \in 1..Len(p_reqs) : p_reqs[i].kind = "malformed" => p_pc # "raised"

(***************************************************************************)
(* The trade log during a fetch                                            *)
(***************************************************************************)
\* C26: during a fresh fetch_all_trades, after each page and before the next
\* request, the trade log holds exactly the records of all pages received so
\* far, one per line, in offset order
C26_ResumableLogClaim ==
  (mpc \in {"fetch", "fetched"} /\ idx <= MaxMarkets)
    => trades_log[CidOf(idx)].lines = LinesOf(f_trades)

(***************************************************************************)
(* Pacing of the attempts                                                  *)
(***************************************************************************)
\* C27: with a limiter, request_json calls limiter.wait() exactly once before
\* each HTTP attempt, retries included, so the waits made equal the attempts
\* made (one more while an attempt is about to be sent); without a limiter it
\* never waits
C27_PacingOfEveryAttempt ==
  /\ use_limiter => req_waits = calls + (IF rpc = "send" THEN 1 ELSE 0)
  /\ ~use_limiter => req_waits = 0 /\ nwaits = 0
  /\ rpc = "idle" => req_waits = 0 /\ calls = 0
\* a call with a limiter has failed after three attempts, with a backoff
\* sleep after each of them and a wait before each of them
C27_Witness ==
  /\ rpc = "done" /\ use_limiter /\ result.kind = "raise"
  /\ calls = 3 /\ nsleeps = 3 /\ req_waits = 3

(***************************************************************************)
(* The limiter under two callers                                           *)
(***************************************************************************)
\* C28: when two callers invoke wait() concurrently on one RateLimiter, in
\* every interleaving the times at which their calls return are at least
\* min_interval apart
C28_ConcurrentWaitClaim ==
  (\A c \in Callers : w_pc[c] = "done")
    => \/ w_release[1] - w_release[2] >= min_interval
       \/ w_release[2] - w_release[1] >= min_interval

(***************************************************************************)
(* The classification retry loop                                           *)
(***************************************************************************)
\* a real calendar date written with the separator /
RealDate(dt) ==
  /\ dt.sep = "/"
  /\ \E m \in 1..12, d \in 1..31 :
       /\ dt.mm = m /\ dt.dd = d
       /\ ~(m = 2 /\ d > 29) /\ ~(m \in {4, 6, 9, 11} /\ d > 30)
       /\ ~(m = 2 /\ d = 29 /\ dt.yyyy % 4 # 0)
\* a response that validates: type 1, 2 or U, one of the four domains, no
\* date exactly when the type is U and otherwise a real date as DD/MM/YYYY
Validates(r) ==
  /\ r.kind = "json"
  /\ r.type \in {"1", "2", "U"}
  /\ r.domain \in {"finance", "sports", "politics", "misc"}
  /\ (r.date = EmptyDate) <=> (r.type = "U")
  /\ r.date # EmptyDate => RealDate(r.date) /\ r.date.padded
\* the same, whatever the number of digits of the day and the month
ValidatesAnyDigits(r) ==
  /\ r.kind = "json"
  /\ r.type \in {"1", "2", "U"}
  /\ r.domain \in {"finance", "sports", "politics", "misc"}
  /\ (r.date = EmptyDate) <=> (r.type = "U")
  /\ r.date # EmptyDate => RealDate(r.date)

\* the rule of the retry loop for a given notion of a valid response
RetryLoopRule(strict) ==
  LET valid(r) == IF strict THEN Validates(r) ELSE ValidatesAnyDigits(r)
  IN
  /\ c_pc # "off" => c_requests <= c_max
  /\ (c_pc = "loop" /\ c_requests > 0) => ~valid(c_last)
  /\ c_pc = "loop" => c_invalid = c_requests
  /\ c_pc = "returned" =>
       \/ /\ c_result.status = "ok"
          /\ valid(c_last)
          /\ c_invalid = c_requests - 1
          /\ c_result = [type |-> c_last.type, domain |-> c_last.domain,
                         date |-> c_last.date, status |-> "ok", error |-> ""]
       \/ /\ c_result = InvalidResult
          /\ c_requests = c_max /\ c_invalid = c_max
          /\ c_requests > 0 => ~valid(c_last)

\* C29: classify_market issues at most max_attempts requests; it goes on only
\* after a response that does not validate and returns status ok, with that
\* response's type, domain and date, at the first one that does (type 1, 2
\* or U, one of the four domains, date empty exactly for type U and otherwise
\* a valid DD/MM/YYYY date); after max_attempts responses that do not
\* validate it returns status error with error invalid_response and empty
\* type, domain and date
C29_ClassificationRetryLoopClaim == RetryLoopRule(TRUE)
\* the loop's rule with dates of one-digit days and months taken as valid
RetryLoopAsCoded == RetryLoopRule(FALSE)

====
